---- MODULE Spec2Model ----
(***************************************************************************)
(* State-machine model of leo-web-monitor: the capture queue of            *)
(* ErrorHandler, the orchestrator's captureError/triggerReport/clearErrors *)
(* and the Reporter's debounced, single-flight, retrying batch flush.      *)
(*                                                                         *)
(* Records are identified by their capture number 1, 2, 3, ... .           *)
(* Time is counted in ms and advances in steps of BackoffBase.             *)
(***************************************************************************)
EXTENDS Integers, Sequences, FiniteSets, TLC

\* ---------------------------------------------------------------- bounds
MaxCaptures == 3
MaxQueueSize == 2
MaxRetryTimes == 3
MaxStarts == 2
MaxReports == 2
MaxFrameStarts == 2
MaxTicks == 62
FramesPerTick == 17
MaxSampleCount == 10
MaxScoreTicks == 2
MaxScrolls == 3
MaxOverrun == 2
MaxBlankStarts == 2

\* ------------------------------------------------------ program constants
ReportInterval == 2000
BackoffBase == 1000
FrameHistoryMax == 1000
FpsHistoryMax == 60
UpdateInterval == 1000
DefaultSampleCount == 10
LongFrameThreshold == 50
SevereFrameThreshold == 100
ScrollIdle == 150
Timeout == 5000
BlankDelay == 1000

VARIABLES
  maxQueueSize,   \* ErrorHandler.maxQueueSize (config.maxErrorQueueSize)
  hasReporter,    \* LeoWebMonitor.reporter is defined (endpoint and apiKey set)
  retryTimes,     \* Reporter.retryTimes
  errorQueue,     \* ErrorHandler.errorQueue
  reportQueue,    \* Reporter.reportQueue
  isReporting,    \* Reporter.isReporting
  flights,        \* the batchReport() calls suspended at an await
  timer,          \* debounce closure: 0 is null, else the last handle
  timeouts,       \* pending setTimeout handles of the debounce: handle -> ms left
  nextHandle,     \* last handle setTimeout returned
  nextId,         \* number of captures made so far
  delivered,      \* the batches the collector acknowledged, in order
  callbackLog,    \* the onError invocations, in order
  fate,           \* history: the filter's verdict on capture 1, 2, ...
  captured,       \* history: accepted captures since the last clearErrors
  sinceFlush,     \* history: arrivals at the reporter since the last flush start
  sinceArrival,   \* history: ms since the last arrival, capped at ReportInterval
  undelivered,    \* history: records handed to the reporter, neither acknowledged
                  \* by the collector nor discarded from the pending list
  last,           \* history: what the last step did
  raised,         \* history: the exception or rejection the last step let escape
                  \* to its caller in the host page ("none" if none)
  hostCalls,      \* history: how often the last step invoked a handler the host
                  \* page had installed in a global slot
  endpoint,       \* config.endpoint is a non-empty string
  apiKey,         \* config.apiKey is a non-empty string
  autoCapture,    \* config.autoCapture
  isInitialized,  \* LeoWebMonitor.isInitialized
  onerror,        \* window.onerror: "null", "host" (the page's handler) or
                  \* "sdk" (the hook setupGlobalErrorHandlers installs)
  onunhandledrejection,               \* window.onunhandledrejection, likewise
  originalErrorHandler,               \* the saved slot value, "undefined" at first
  originalUnhandledRejectionHandler,  \* likewise
  listeners,      \* capturing 'error' listeners of the SDK registered on window
  preError,       \* history: window.onerror before the last start() that ran
  preRejection,   \* history: window.onunhandledrejection before that start()
  starts,         \* history: start() calls that got past the isInitialized guard
  direct,         \* the reportError() calls suspended in sendRequest
  directCalls,    \* history: number of reportError() calls made
  isMonitoring,   \* FrameMonitor.isMonitoring
  frameCount,     \* FrameMonitor.frameCount
  frameHistory,   \* FrameMonitor.frameHistory, each sample a FrameInfo
  fpsHistory,     \* FrameMonitor.fpsHistory, each value with the number of the
                  \* updateFPS call that pushed it
  lastUpdateFrameCount,  \* FrameMonitor.lastUpdateFrameCount
  ticks,          \* history: updateFPS calls since the last FrameMonitor.start()
  frameStarts,    \* history: FrameMonitor.start() calls that started monitoring
  longFrameThreshold,    \* FrameMonitor.config.longFrameThreshold (ms)
  severeFrameThreshold,  \* FrameMonitor.config.severeFrameThreshold (ms)
  updateInterval, \* FrameMonitor.config.updateInterval (ms)
  durations,      \* the frame durations (ms) the page's display produces
  horizon,        \* the number of updateFPS calls observed per start()
  longFrameCount, \* FrameMonitor.longFrameCount
  severeFrameCount,      \* FrameMonitor.severeFrameCount
  sinceUpdate,    \* performance.now() - FrameMonitor.lastUpdateTime
  sinceFrame,     \* performance.now() - FrameMonitor.lastFrameTime
  rafPending,     \* the requestAnimationFrame callback of rafId is scheduled
  intervalOn,     \* the setInterval of updateIntervalId is running
  autoReports,    \* the setInterval timers of setupAutoReport that are running
  scrollListening,       \* handleScroll is registered on window
  isScrolling,    \* FrameMonitor.isScrolling
  scrollTimeoutId,       \* FrameMonitor.scrollTimeoutId (0 = null)
  scrollTimeouts, \* the pending scroll-idle timeouts: handle -> ms left
  scrollFrameData,       \* FrameMonitor.scrollFrameData
  scrolls,        \* history: scroll events handled
  sessions,       \* history: scroll sessions begun by handleScroll
  sinceScroll,    \* history: ms since the last scroll event handled, at most
                  \* ScrollIdle; -1 before the first
  sessionFrames,  \* history: the frames recorded less than ScrollIdle ms
                  \* after a scroll event, since the last event that came
                  \* after an idle period
  tickFrames,     \* history: the frames recorded since the last updateFPS
  perf,           \* what the last FrameMonitor step emitted: the calls of
                  \* onPerformanceData and of onScrollPerformanceData it
                  \* made and the snapshot it produced
  sampleCount,    \* BlankScreenDetector.config.sampleCount
  threshold,      \* BlankScreenDetector.config.threshold, a fraction <<p, q>>
  viewportEmpty,  \* the viewport of the last detection had width or height 0
  blankPoints,    \* blankPoints of the last detection
  isBlankScreen,  \* the classification the last detection returned
  blankEnabled,   \* BlankScreenDetector.config.enabled: "true", "false" or
                  \* "undefined"
  cfgBlankEnabled,       \* LeoWebMonitor.config.blankScreen.enabled, likewise
  frameEnabled,   \* FrameMonitor.config.enabled, likewise
  cfgFrameEnabled,       \* LeoWebMonitor.config.frameMonitor?.enabled, likewise
  isChecking,     \* BlankScreenDetector.isChecking
  checkTimer,     \* BlankScreenDetector.checkTimer (0 = undefined)
  checkTimeouts,  \* the pending setTimeout handles of scheduleCheck:
                  \* handle -> ms left
  checkHandle,    \* last handle scheduleCheck's setTimeout returned
  readyState,     \* document.readyState
  readyListeners, \* DOMContentLoaded listeners start() registered
  forwarded,      \* history: how often the last detection invoked
                  \* onBlankScreenDetected
  manualResult,   \* history: what the last manualCheck() resolved with
  detectorOn,     \* history: start() passed its enabled test and stop() was
                  \* not called since
  blankStarts,    \* history: start() calls that set isChecking
  slots,          \* two monitors on one page: window.onerror and
                  \* window.onunhandledrejection, each "null", "host" or the
                  \* monitor ("A" or "B") whose hook it holds
  originals,      \* for each monitor, the two saved slot values
                  \* ("undefined" at first)
  initialized,    \* for each monitor, isInitialized
  everStarted,    \* history: for each monitor, start() was called
  errorListeners, \* for each monitor, its capturing 'error' listeners
  got,            \* history: for each monitor, the records the last fault
                  \* made in it
  pageSlots       \* history: the slots before the first start()

vars == <<maxQueueSize, hasReporter, retryTimes, errorQueue, reportQueue,
          isReporting, flights, timer, timeouts, nextHandle, nextId, delivered,
          callbackLog, fate, captured, sinceFlush, sinceArrival, undelivered,
          last, raised, hostCalls, endpoint, apiKey, autoCapture,
          isInitialized, onerror, onunhandledrejection, originalErrorHandler,
          originalUnhandledRejectionHandler, listeners, preError, preRejection,
          starts, direct, directCalls, isMonitoring, frameCount,
          frameHistory, fpsHistory, lastUpdateFrameCount, ticks, frameStarts,
          longFrameThreshold, severeFrameThreshold, updateInterval, durations,
          horizon, longFrameCount, severeFrameCount, sinceUpdate, sinceFrame,
          rafPending, intervalOn, autoReports, scrollListening, isScrolling,
          scrollTimeoutId, scrollTimeouts, scrollFrameData, scrolls, sessions,
          sinceScroll, sessionFrames, tickFrames, perf,
          sampleCount, threshold, viewportEmpty, blankPoints, isBlankScreen,
          blankEnabled, cfgBlankEnabled, frameEnabled, cfgFrameEnabled,
          isChecking, checkTimer, checkTimeouts, checkHandle,
          readyState, readyListeners, forwarded, manualResult, detectorOn,
          blankStarts, slots, originals, initialized, everStarted,
          errorListeners, got, pageSlots>>

\* two monitors on one page
pair == <<slots, originals, initialized, everStarted, errorListeners, got,
          pageSlots>>

config == <<maxQueueSize, hasReporter, retryTimes, endpoint, apiKey, autoCapture>>

hooks == <<isInitialized, onerror, onunhandledrejection, originalErrorHandler,
           originalUnhandledRejectionHandler, listeners, preError, preRejection,
           starts>>

manual == <<direct, directCalls>>

\* the FrameMonitor's configuration and the page's display
frameConfig == <<longFrameThreshold, severeFrameThreshold, updateInterval,
                 durations, horizon, frameEnabled, cfgFrameEnabled>>

\* the scroll sub-session
scroll == <<scrollListening, isScrolling, scrollTimeoutId, scrollTimeouts,
            scrollFrameData, scrolls, sessions, sinceScroll, sessionFrames>>

frames == <<isMonitoring, frameCount, frameHistory, fpsHistory,
            lastUpdateFrameCount, ticks, frameStarts, frameConfig,
            longFrameCount, severeFrameCount, sinceUpdate, sinceFrame,
            rafPending, intervalOn, autoReports, scroll, tickFrames, perf>>

\* the last detection
detection == <<viewportEmpty, blankPoints, isBlankScreen, forwarded,
               manualResult>>

\* the scheduled check
schedule == <<isChecking, checkTimer, checkTimeouts, checkHandle,
              readyListeners, detectorOn, blankStarts>>

blank == <<sampleCount, threshold, blankEnabled, cfgBlankEnabled, readyState,
           detection, schedule>>

\* ---------------------------------------------------------------- helpers
Instances == {"A", "B"}

SlotKinds == {"scriptError", "unhandledRejection"}

\* the values of an enabled flag, and the test if (flag)
Flags == {"true", "false", "undefined"}

Truthy(flag) == flag = "true"

Range(s) == {s[i] : i \in 1..Len(s)}

Min(a, b) == IF a <= b THEN a ELSE b

Max(a, b) == IF a >= b THEN a ELSE b

LastK(s, k) == SubSeq(s, Len(s) - k + 1, Len(s))

RemoveAt(s, i) == SubSeq(s, 1, i - 1) \o SubSeq(s, i + 1, Len(s))

RECURSIVE Pow2(_)
Pow2(n) == IF n <= 0 THEN 1 ELSE 2 * Pow2(n - 1)

Event(op, batch, arrived, requests, fails) ==
  [op |-> op, batch |-> batch, arrived |-> arrived, requests |-> requests,
   fails |-> fails]

NoEvent(op) == Event(op, <<>>, <<>>, 0, 0)

\* JavaScript numbers that are fractions: <<n, d>> in lowest terms, d > 0
RECURSIVE GCD(_, _)
GCD(a, b) == IF b = 0 THEN a ELSE GCD(b, a % b)

Rat(n, d) ==
  LET g == GCD(IF n < 0 THEN 0 - n ELSE n, d)
  IN  IF n = 0 THEN <<0, 1>> ELSE <<n \div g, d \div g>>

RatAdd(a, b) == Rat(a[1] * b[2] + b[1] * a[2], a[2] * b[2])

RatSub(a, b) == Rat(a[1] * b[2] - b[1] * a[2], a[2] * b[2])

RatLess(a, b) == a[1] * b[2] < b[1] * a[2]

RatMin(a, b) == IF RatLess(b, a) THEN b ELSE a

RatMax(a, b) == IF RatLess(a, b) THEN b ELSE a

\* Math.round: the nearest integer, halves upwards
Round(a) == (2 * a[1] + a[2]) \div (2 * a[2])

\* ------------------------------------------------------------ ErrorHandler
\* Array.prototype.shift: removes the first element, a no-op on an empty array
shift(q) == IF q = <<>> THEN q ELSE Tail(q)

addToQueue_EvictsEarly(q, e) ==
  IF Len(q) + 1 >= maxQueueSize THEN Append(shift(q), e) ELSE Append(q, e)

\* addToQueue: evict the oldest record when full, then push
addToQueue(q, e) ==
  LET q1 == IF Len(q) >= maxQueueSize THEN shift(q) ELSE q
  IN  Append(q1, e)

\* processError with the filter's verdict ignored
processError_FilterIgnored(q, log, e, f) ==
  LET q1 == addToQueue(q, e)
  IN  [queue |-> q1,
       log |-> Append(log, [id |-> e, enqueued |-> e \in Range(q1)]),
       raised |-> "none"]

\* processError without its try/catch
processError_NoTryCatch(q, log, e, f) ==
  IF f = "throw"
    THEN [queue |-> q, log |-> log, raised |-> "filterError"]
  ELSE IF f = "reject"
    THEN [queue |-> q, log |-> log, raised |-> "none"]
  ELSE LET q1 == addToQueue(q, e)
       IN  [queue |-> q1,
            log |-> Append(log, [id |-> e, enqueued |-> e \in Range(q1)]),
            raised |-> IF f = "cbthrow" THEN "callbackError" ELSE "none"]

\* processError: f is what errorFilter and onError do with the record: the
\* filter accepts it ("accept"), rejects it ("reject") or throws ("throw"), or
\* the filter accepts it and onError throws ("cbthrow"). The result is the
\* queue and the log of onError invocations after the call, and what the call
\* raises: the try/catch around the whole body lets nothing escape.
processError(q, log, e, f) ==
  IF f = "throw" \/ f = "reject"
    THEN [queue |-> q, log |-> log, raised |-> "none"]
    ELSE LET q1 == addToQueue(q, e)
         IN  [queue |-> q1,
              log |-> Append(log, [id |-> e, enqueued |-> e \in Range(q1)]),
              raised |-> "none"]

TriggersReport_Never(q) == FALSE

\* triggerReport's test, on the capture queue q that processError left
TriggersReport(q) == hasReporter /\ Len(q) > 0

\* ---------------------------------------------------------------- Reporter
getPendingCount == Len(reportQueue)

\* the pending handles after clearTimeout(h)
clearTimeout(ts, h) == [x \in (DOMAIN ts) \ {h} |-> ts[x]]

\* debounce without its clearTimeout
debounce_NoClear(ts, t, h) ==
  [x \in (DOMAIN ts) \cup {h} |-> IF x = h THEN ReportInterval ELSE ts[x]]

\* debounce: the pending handles after one call of the debounced function
debounce(ts, t, h) ==
  LET cleared == IF t # 0 THEN clearTimeout(ts, t) ELSE ts
  IN  [x \in (DOMAIN cleared) \cup {h} |->
         IF x = h THEN ReportInterval ELSE cleared[x]]

BackoffDelay_Constant(attempt) == BackoffBase

\* sendRequest's backoff before attempt + 1
BackoffDelay(attempt) == Pow2(attempt - 1) * BackoffBase

\* sendRequest's loop test
LoopContinues(attempt) == attempt <= retryTimes

\* sendRequest's test for giving up after a failed attempt
IsLastAttempt(attempt) == attempt = retryTimes

\* batchReport's guard without the isReporting test
FlushGuard_NoSingleFlight == ~(Len(reportQueue) = 0)

\* batchReport's guard
FlushGuard == ~(isReporting \/ Len(reportQueue) = 0)

\* batchReport detaching the oldest record only
DetachedBatch_OldestOnly(q) == <<Head(q)>>

\* batchReport: the batch it detaches and what it leaves in the queue
DetachedBatch(q) == q

QueueAfterDetach(q) == <<>>

\* batchReport's catch with push in place of unshift
Requeue_AtBack(q, errors) == q \o errors

\* batchReport's catch: the queue after the failed batch is put back
Requeue(q, errors) == errors \o q

\* batchReport with the guard released in the try block only
batchReportEnd_NoFinally(outcome) ==
  [raised |-> "none", isReporting |-> outcome = "rejected"]

\* batchReport's catch and finally, once sendRequest has ended with outcome
\* ("resolved" or "rejected"): what batchReport raises and the guard it leaves
batchReportEnd(outcome) == [raised |-> "none", isReporting |-> FALSE]

\* sendRequest with its loop counting from 0
NewFlight_FromZero(errors, h) ==
  [fid |-> h, errors |-> errors, payload |-> errors, wire |-> errors,
   attempt |-> 0, pc |-> "request", wait |-> 0, requests |-> 1, fails |-> 0,
   age |-> 0, status |-> 0, body |-> "none"]

\* the batchReport() call started by the firing of handle h, suspended in its
\* first makeRequest: pc is "request" while fetch is awaited (the abort
\* timer is armed), "body" while response.json() is awaited (the abort
\* timer is cleared), "backoff" during sendRequest's delay; age is the time
\* since the attempt's makeRequest began, status and body the response
NewFlight(errors, h) ==
  [fid |-> h, errors |-> errors, payload |-> errors, wire |-> errors,
   attempt |-> 1, pc |-> "request", wait |-> 0, requests |-> 1, fails |-> 0,
   age |-> 0, status |-> 0, body |-> "none"]

\* makeRequest of flight f has not returned
makeRequestPending(f) == f.pc = "request" \/ f.pc = "body"

\* response.ok
ResponseOk(status) == status >= 200 /\ status <= 299

\* the statuses and the bodies a collector answers with: a JSON value other
\* than null, the JSON text null, a text that is not JSON, or a body that
\* never completes
Statuses == {200, 204, 404, 500}

BodyKinds == {"value", "null", "malformed", "never"}

\* response.json() resolves for the body
Parses(body) == body = "value" \/ body = "null"

makeRequest_StatusOnly(status, body) ==
  IF ResponseOk(status) THEN "success" ELSE "HTTP_ERROR"

\* makeRequest once the response is complete: HTTP_ERROR for a status that
\* is not ok; else json() rejects for a malformed body and result.message
\* throws for null, both caught and wrapped as NETWORK_ERROR; else success
makeRequest(status, body) ==
  IF ~ResponseOk(status) THEN "HTTP_ERROR"
  ELSE IF ~Parses(body) \/ body = "null" THEN "NETWORK_ERROR"
  ELSE "success"

\* -------------------------------------------------------- FrameMonitor
Capped_Never(h, max) == h

\* monitorFrame / updateFPS after the push: if (h.length > max) h.shift()
Capped(h, max) == IF Len(h) > max THEN shift(h) ELSE h

\* updateFPS: elapsed > 0 ? (frameSinceLastUpdate / elapsed) * 1000 : 0
currentFps(frameSinceLastUpdate, elapsed) ==
  IF elapsed > 0 THEN Rat(frameSinceLastUpdate * 1000, elapsed) ELSE <<0, 1>>

\* monitorFrame: the FrameInfo of a frame that took d ms
FrameInfo(id, d) ==
  [frameId |-> id, duration |-> d, isLongFrame |-> d > longFrameThreshold,
   isSevereFrame |-> d > severeFrameThreshold]

\* fpsHistory.reduce((acc, fps) => acc + fps, 0) over h[lo..hi], summed by
\* halves
RECURSIVE SumFps(_, _, _)
SumFps(h, lo, hi) ==
  IF lo > hi THEN <<0, 1>>
  ELSE IF lo = hi THEN h[lo].fps
  ELSE LET mid == (lo + hi) \div 2
       IN  RatAdd(SumFps(h, lo, mid), SumFps(h, mid + 1, hi))

\* calculateAvgFPS: 0 for an empty history, else sum / length
calculateAvgFPS(h) ==
  IF Len(h) = 0 THEN <<0, 1>>
  ELSE LET sum == SumFps(h, 1, Len(h)) IN Rat(sum[1], sum[2] * Len(h))

\* the weights of calculateSmoothScore
FpsTarget == 60
FpsWeight == 50
LongFrameWeight == 30
SevereFrameWeight == 50

calculateSmoothScore_NoFloor(n, long, severe, h) ==
  IF n = 0 THEN 100
  ELSE LET fpsScore == RatMin(Rat(calculateAvgFPS(h)[1] * FpsWeight,
                                  calculateAvgFPS(h)[2] * FpsTarget),
                              <<FpsWeight, 1>>)
       IN  Round(RatAdd(RatSub(RatSub(<<100, 1>>,
                                      Rat(long * LongFrameWeight, n)),
                               Rat(severe * SevereFrameWeight, n)),
                        RatSub(fpsScore, <<FpsWeight, 1>>)))

calculateSmoothScore_NoBase(n, long, severe, h) ==
  IF n = 0 THEN 100
  ELSE LET fpsScore == RatMin(Rat(calculateAvgFPS(h)[1] * FpsWeight,
                                  calculateAvgFPS(h)[2] * FpsTarget),
                              <<FpsWeight, 1>>)
           score == RatMax(<<0, 1>>,
                      RatSub(RatSub(fpsScore,
                                    Rat(long * LongFrameWeight, n)),
                             Rat(severe * SevereFrameWeight, n)))
       IN  Round(score)

\* calculateSmoothScore: 100 without frames, else
\* round(max(0, 100 - longFrameRatio * 30 - severeFrameRatio * 50
\*                 + (min(avgFps / 60, 1) * 50 - 50)))
calculateSmoothScore(n, long, severe, h) ==
  IF n = 0 THEN 100
  ELSE LET avgFps == calculateAvgFPS(h)
           longFramePenalty == Rat(long * LongFrameWeight, n)
           severeFramePenalty == Rat(severe * SevereFrameWeight, n)
           fpsScore == RatMin(Rat(avgFps[1] * FpsWeight, avgFps[2] * FpsTarget),
                              <<FpsWeight, 1>>)
           score == RatMax(<<0, 1>>,
                      RatAdd(RatSub(RatSub(<<100, 1>>, longFramePenalty),
                                    severeFramePenalty),
                             RatSub(fpsScore, <<FpsWeight, 1>>)))
       IN  Round(score)

\* the snapshot before any was produced
NoSnapshot ==
  [fps |-> <<0, 1>>, avgFps |-> <<0, 1>>, longFrameCount |-> 0,
   severeFrameCount |-> 0, totalFrames |-> 0, smoothScore |-> 100]

SnapshotCounts_OfRing(n, long, severe, ring) ==
  [totalFrames |-> Len(ring),
   longFrameCount |-> Cardinality({i \in 1..Len(ring) : ring[i].isLongFrame}),
   severeFrameCount |->
     Cardinality({i \in 1..Len(ring) : ring[i].isSevereFrame})]

\* getPerformanceData: the counts it returns are the counters
SnapshotCounts(n, long, severe, ring) ==
  [totalFrames |-> n, longFrameCount |-> long, severeFrameCount |-> severe]

\* getPerformanceData at elapsed ms after lastUpdateTime, with the sampler's
\* fields as given (minFps, maxFps, droppedFrameRate, duration, timestamp
\* and url are left out)
getPerformanceData(elapsed, n, lastN, long, severe, ring, h) ==
  LET counts == SnapshotCounts(n, long, severe, ring)
  IN  [fps |-> IF elapsed > 0 THEN Rat((n - lastN) * 1000, elapsed)
               ELSE IF Len(h) > 0 THEN h[Len(h)].fps ELSE <<0, 1>>,
       avgFps |-> calculateAvgFPS(h),
       longFrameCount |-> counts.longFrameCount,
       severeFrameCount |-> counts.severeFrameCount,
       totalFrames |-> counts.totalFrames,
       smoothScore |->
         calculateSmoothScore(counts.totalFrames, counts.longFrameCount,
                              counts.severeFrameCount, h)]

BookkeepingAfterQuery_Rebased(b) == <<0, frameCount>>

\* getPerformanceData assigns no field: lastUpdateTime and
\* lastUpdateFrameCount (b) are what they were
BookkeepingAfterQuery(b) == b

handleScrollTimeouts_NoClear(ts, t, h) ==
  [x \in (DOMAIN ts) \cup {h} |-> IF x = h THEN ScrollIdle ELSE ts[x]]

\* handleScroll: clearTimeout(scrollTimeoutId) unless it is null, then a new
\* timeout of 150 ms
handleScrollTimeouts(ts, t, h) ==
  LET cleared == IF t # 0 THEN clearTimeout(ts, t) ELSE ts
  IN  [x \in (DOMAIN cleared) \cup {h} |->
         IF x = h THEN ScrollIdle ELSE cleared[x]]

\* the pending scroll-idle timeouts adv ms later
TimeoutsAfter(adv) ==
  [h \in DOMAIN scrollTimeouts |-> scrollTimeouts[h] - adv]

SinceScrollAfter(adv) ==
  IF sinceScroll < 0 THEN sinceScroll ELSE Min(ScrollIdle, sinceScroll + adv)

AutoReportEmits_Always(monitoring) == TRUE

\* the interval callback of setupAutoReport: if (this.isMonitoring && ...)
AutoReportEmits(monitoring) == monitoring

\* handleScrollEnd: the session's metrics go to logger.info only; no
\* callback is invoked
ScrollEndEmits == 0

\* what a step emitted: calls of onPerformanceData, the snapshot, calls of
\* onScrollPerformanceData
Emitted(calls, data, scrollCalls) ==
  [calls |-> calls, data |-> data, scrollCalls |-> scrollCalls]

NoPerf == Emitted(0, NoSnapshot, 0)

\* ------------------------------------------------- BlankScreenDetector
\* thresholds the page may configure: 0, 1/2, 7/10, 4/5 (the default), 1, 3/2
Thresholds == {<<0, 1>>, <<1, 2>>, <<7, 10>>, <<4, 5>>, <<1, 1>>, <<3, 2>>}

DefaultThreshold == <<4, 5>>

detectBlankScreen_Strict(empty, blankCount, totalPoints, t) ==
  IF empty THEN TRUE ELSE blankCount * t[2] > t[1] * totalPoints

\* detectBlankScreen: true for a viewport without area; else blankRatio =
\* blankPoints / totalPoints and the result is blankRatio >= threshold
\* (totalPoints >= 1; the threshold is the fraction t[1] / t[2])
detectBlankScreen(empty, blankCount, totalPoints, t) ==
  IF empty THEN TRUE ELSE blankCount * t[2] >= t[1] * totalPoints

reportsBlankScreen_Always(isBlank) == TRUE

\* performCheck / manualCheck: if (isBlankScreen) this.reportBlankScreen(),
\* which invokes onBlankScreenDetected once
reportsBlankScreen(isBlank) == isBlank

\* scheduleCheck, n times in a row from the last handle hd: each setTimeout
\* adds a handle due after the delay
RECURSIVE scheduleCheck(_, _, _)
scheduleCheck(ts, hd, n) ==
  IF n = 0 THEN ts
  ELSE scheduleCheck([x \in (DOMAIN ts) \cup {hd + 1} |->
                        IF x = hd + 1 THEN BlankDelay ELSE ts[x]],
                     hd + 1, n - 1)

\* ------------------------------------------------------- LeoWebMonitor
ReporterConfigured_EndpointOnly(ep, key) == ep

\* constructor: a Reporter is created iff endpoint and apiKey are both set
ReporterConfigured(ep, key) == ep /\ key

StartIsNoop_Never == FALSE

\* start(): the isInitialized guard
StartIsNoop == isInitialized

\* getErrorStats(), of which lastErrorTime is left out
getErrorStats ==
  [totalErrors |-> Len(errorQueue),
   pendingReports |-> IF hasReporter THEN getPendingCount ELSE 0,
   queueSize |-> Len(errorQueue)]

\* getErrors()
getErrors == errorQueue

\* removeGlobalErrorHandlers: saved || null
Restore(saved) == IF saved = "undefined" THEN "null" ELSE saved

\* the normalisation in handleJavaScriptError / handlePromiseError /
\* handleResourceError, which runs before processError and outside its
\* try/catch, completes for a well-formed fault ("ok"); for a "malformed" one
\* (a thrown or rejected value without toString, an 'error' event whose
\* target has no tagName) it raises a TypeError
Normalises(shape) == shape = "ok"

\* -------------------------------------------------- one capture, as a map
\* the part of the state one capture reads and writes
CaptureState ==
  [eq |-> errorQueue, rq |-> reportQueue, log |-> callbackLog,
   ts |-> timeouts, t |-> timer, nh |-> nextHandle, sf |-> sinceFlush,
   sa |-> sinceArrival, und |-> undelivered, id |-> nextId, fate |-> fate,
   cap |-> captured, raised |-> "none"]

\* handleCustomError / handleJavaScriptError / handlePromiseError /
\* handleResourceError followed by triggerReport, on the state s: processError,
\* then (unless processError raised) triggerReport, whose addToReportQueue
\* pushes the capture queue and calls the debounced flush
AfterCapture(s, f) ==
  LET e == s.id + 1
      r == processError(s.eq, s.log, e, f)
      h == s.nh + 1
      base == [s EXCEPT !.id = e,
                        !.fate = Append(@, f),
                        !.cap = IF f = "accept" \/ f = "cbthrow"
                                  THEN Append(@, e) ELSE @,
                        !.log = r.log,
                        !.raised = r.raised]
  IN  IF r.raised = "none" /\ TriggersReport(r.queue)
        THEN [base EXCEPT !.rq = @ \o r.queue,
                          !.ts = debounce(s.ts, s.t, h),
                          !.t = h,
                          !.nh = h,
                          !.eq = <<>>,
                          !.sf = @ \o r.queue,
                          !.sa = 0,
                          !.und = @ \cup Range(r.queue)]
        ELSE [base EXCEPT !.eq = r.queue]

\* n hooks of the SDK run one after the other on the same fault
RECURSIVE Dispatch(_, _, _)
Dispatch(s, f, n) ==
  IF n = 0 THEN s ELSE Dispatch(AfterCapture(s, f), f, n - 1)

\* the state after the captures is s
CaptureDone(s) ==
  /\ errorQueue' = s.eq
  /\ reportQueue' = s.rq
  /\ callbackLog' = s.log
  /\ timeouts' = s.ts
  /\ timer' = s.t
  /\ nextHandle' = s.nh
  /\ sinceFlush' = s.sf
  /\ sinceArrival' = s.sa
  /\ undelivered' = s.und
  /\ nextId' = s.id
  /\ fate' = s.fate
  /\ captured' = s.cap
  /\ raised' = s.raised

\* ------------------------------------------------------------------- Init
CoreInit ==
  /\ slots = [k \in SlotKinds |-> "null"]
  /\ originals = [i \in Instances |-> [k \in SlotKinds |-> "undefined"]]
  /\ initialized = [i \in Instances |-> FALSE]
  /\ everStarted = [i \in Instances |-> FALSE]
  /\ errorListeners = [i \in Instances |-> 0]
  /\ got = [i \in Instances |-> 0]
  /\ pageSlots = [k \in SlotKinds |-> "null"]
  /\ endpoint \in BOOLEAN
  /\ apiKey \in BOOLEAN
  /\ hasReporter = ReporterConfigured(endpoint, apiKey)
  /\ retryTimes \in 0..MaxRetryTimes
  /\ errorQueue = <<>>
  /\ reportQueue = <<>>
  /\ isReporting = FALSE
  /\ flights = <<>>
  /\ timer = 0
  /\ timeouts = <<>>
  /\ nextHandle = 0
  /\ nextId = 0
  /\ delivered = <<>>
  /\ callbackLog = <<>>
  /\ fate = <<>>
  /\ captured = <<>>
  /\ sinceFlush = <<>>
  /\ sinceArrival = 0
  /\ undelivered = {}
  /\ last = NoEvent("init")
  /\ raised = "none"
  /\ hostCalls = 0
  /\ direct = <<>>
  /\ directCalls = 0
  /\ isMonitoring = FALSE
  /\ frameCount = 0
  /\ frameHistory = <<>>
  /\ fpsHistory = <<>>
  /\ lastUpdateFrameCount = 0
  /\ ticks = 0
  /\ frameStarts = 0
  /\ longFrameCount = 0
  /\ severeFrameCount = 0
  /\ sinceUpdate = 0
  /\ sinceFrame = 0
  /\ rafPending = FALSE
  /\ intervalOn = FALSE
  /\ autoReports = 0
  /\ scrollListening = FALSE
  /\ isScrolling = FALSE
  /\ scrollTimeoutId = 0
  /\ scrollTimeouts = <<>>
  /\ scrollFrameData = <<>>
  /\ scrolls = 0
  /\ sessions = 0
  /\ sinceScroll = -1
  /\ sessionFrames = <<>>
  /\ tickFrames = 0
  /\ perf = NoPerf

\* the page before start(): its handlers e and r in the two global slots
HooksAt(a, e, r) ==
  /\ autoCapture = a
  /\ isInitialized = FALSE
  /\ onerror = e
  /\ onunhandledrejection = r
  /\ originalErrorHandler = "undefined"
  /\ originalUnhandledRejectionHandler = "undefined"
  /\ listeners = 0
  /\ preError = e
  /\ preRejection = r
  /\ starts = 0

\* the FrameMonitor constructed with thresholds lt and st and update
\* interval ui, in a page whose frames take one of the durations ds,
\* observed for hz update intervals per start()
FramesAt(lt, st, ui, ds, hz) ==
  /\ longFrameThreshold = lt
  /\ severeFrameThreshold = st
  /\ updateInterval = ui
  /\ durations = ds
  /\ horizon = hz
  /\ frameEnabled = "true"
  /\ cfgFrameEnabled = "true"

\* the default FrameMonitor in a page with a steady display
FramesDefault ==
  FramesAt(LongFrameThreshold, SevereFrameThreshold, UpdateInterval,
           {UpdateInterval \div FramesPerTick}, MaxTicks)

\* the detector as configured, before any detection, in a document whose
\* readyState is rs
DetectorAt(n, t, rs) ==
  /\ sampleCount = n
  /\ threshold = t
  /\ viewportEmpty = FALSE
  /\ blankPoints = 0
  /\ isBlankScreen = FALSE
  /\ blankEnabled = "true"
  /\ cfgBlankEnabled = "true"
  /\ isChecking = FALSE
  /\ checkTimer = 0
  /\ checkTimeouts = <<>>
  /\ checkHandle = 0
  /\ readyState = rs
  /\ readyListeners = 0
  /\ forwarded = 0
  /\ manualResult = FALSE
  /\ detectorOn = FALSE
  /\ blankStarts = 0

\* the detector in a document that has finished loading
BlankAt(n, t) == DetectorAt(n, t, "complete")

\* default configuration (autoCapture on) in a page without handlers
Init ==
  /\ CoreInit
  /\ FramesDefault
  /\ BlankAt(DefaultSampleCount, DefaultThreshold)
  /\ maxQueueSize \in 0..MaxQueueSize
  /\ HooksAt(TRUE, "null", "null")

\* ---------------------------------------------------------------- actions
\* what errorFilter and onError can do with a record
Verdicts == {"accept", "reject", "throw", "cbthrow"}

\* captureError(error): handleCustomError -> processError, then triggerReport
CaptureError(f) ==
  /\ nextId < MaxCaptures
  /\ CaptureDone(AfterCapture(CaptureState, f))
  /\ last' = Event("capture", <<nextId + 1>>, <<>>, 0, 0)
  /\ hostCalls' = 0
  /\ UNCHANGED <<config, pair, frames, blank, hooks, manual, isReporting, flights, delivered>>

\* clearErrors: clearErrorQueue, and clearReportQueue when a reporter exists
ClearErrors ==
  /\ errorQueue' = <<>>
  /\ reportQueue' = IF hasReporter THEN <<>> ELSE reportQueue
  /\ captured' = <<>>
  /\ sinceFlush' = <<>>
  /\ undelivered' = IF hasReporter THEN undelivered \ Range(reportQueue)
                                   ELSE undelivered
  /\ last' = NoEvent("clear")
  /\ raised' = "none"
  /\ hostCalls' = 0
  /\ UNCHANGED <<config, pair, frames, blank, hooks, manual, isReporting, flights, timer, timeouts, nextHandle,
                 nextId, delivered, callbackLog, fate, sinceArrival>>

\* BackoffBase ms pass; no timer that is due is overtaken
Tick ==
  /\ \A h \in DOMAIN timeouts : timeouts[h] > 0
  /\ \A i \in 1..Len(flights) : flights[i].pc = "backoff" => flights[i].wait > 0
  /\ timeouts' = [h \in DOMAIN timeouts |-> Max(0, timeouts[h] - BackoffBase)]
  /\ flights' = [i \in 1..Len(flights) |->
                   IF flights[i].pc = "backoff"
                     THEN [flights[i] EXCEPT !.wait = Max(0, @ - BackoffBase)]
                     ELSE flights[i]]
  /\ \A i \in 1..Len(direct) : direct[i].pc = "backoff" => direct[i].wait > 0
  /\ direct' = [i \in 1..Len(direct) |->
                  IF direct[i].pc = "backoff"
                    THEN [direct[i] EXCEPT !.wait = Max(0, @ - BackoffBase)]
                    ELSE direct[i]]
  /\ sinceArrival' = Min(ReportInterval, sinceArrival + BackoffBase)
  /\ last' = NoEvent("tick")
  /\ raised' = "none"
  /\ hostCalls' = 0
  /\ UNCHANGED <<config, pair, frames, blank, hooks, directCalls, errorQueue, reportQueue, isReporting, timer,
                 nextHandle, nextId, delivered, callbackLog, fate, captured,
                 sinceFlush, undelivered>>

\* the debounce timeout h fires: batchReport() up to its first suspension
TimerFire(h) ==
  /\ h \in DOMAIN timeouts
  /\ timeouts[h] = 0
  /\ timeouts' = clearTimeout(timeouts, h)
  /\ raised' = IF FlushGuard /\ ~LoopContinues(1)
                 THEN batchReportEnd("rejected").raised ELSE "none"
  /\ hostCalls' = 0
  /\ IF ~FlushGuard
       THEN /\ last' = NoEvent("timerNoop")
            /\ UNCHANGED <<reportQueue, isReporting, flights, sinceFlush>>
       ELSE LET errors == DetachedBatch(reportQueue)
                rest == QueueAfterDetach(reportQueue)
            IN  IF LoopContinues(1)
                  THEN /\ isReporting' = TRUE
                       /\ reportQueue' = rest
                       /\ flights' = Append(flights, NewFlight(errors, h))
                       /\ sinceFlush' = <<>>
                       /\ last' = Event("flush", errors, <<>>, 1, 0)
                  ELSE \* no attempt is made: sendRequest throws, the catch
                       \* puts the batch back and the finally releases the guard
                       /\ isReporting' = batchReportEnd("rejected").isReporting
                       /\ reportQueue' = Requeue(rest, errors)
                       /\ sinceFlush' = <<>>
                       /\ last' = Event("exhausted", errors, <<>>, 0, 0)
                       /\ UNCHANGED flights
  /\ UNCHANGED <<config, pair, frames, blank, hooks, manual, errorQueue, timer, nextHandle, nextId, delivered,
                 callbackLog, fate, captured, sinceArrival, undelivered>>

\* makeRequest of flight i resolves: sendRequest returns, batchReport logs the
\* success and releases the guard
NetSucceed(i) ==
  /\ i \in 1..Len(flights)
  /\ makeRequestPending(flights[i])
  /\ delivered' = Append(delivered, flights[i].wire)
  /\ undelivered' = undelivered \ Range(flights[i].wire)
  /\ flights' = RemoveAt(flights, i)
  /\ isReporting' = batchReportEnd("resolved").isReporting
  /\ raised' = batchReportEnd("resolved").raised
  /\ hostCalls' = 0
  /\ last' = Event("delivered", flights[i].errors, sinceFlush,
                   flights[i].requests, flights[i].fails)
  /\ UNCHANGED <<config, pair, frames, blank, hooks, manual, errorQueue, reportQueue, timer, timeouts, nextHandle,
                 nextId, callbackLog, fate, captured, sinceFlush, sinceArrival>>

\* makeRequest of flight i rejects (network error, timeout, non-ok status,
\* unparseable body): sendRequest backs off, or gives up and batchReport
\* puts the batch back
NetFail(i) ==
  /\ i \in 1..Len(flights)
  /\ makeRequestPending(flights[i])
  /\ raised' = IF IsLastAttempt(flights[i].attempt)
                 THEN batchReportEnd("rejected").raised ELSE "none"
  /\ hostCalls' = 0
  /\ IF IsLastAttempt(flights[i].attempt)
       THEN /\ reportQueue' = Requeue(reportQueue, flights[i].errors)
            /\ isReporting' = batchReportEnd("rejected").isReporting
            /\ flights' = RemoveAt(flights, i)
            /\ last' = Event("exhausted", flights[i].errors, sinceFlush,
                             flights[i].requests, flights[i].fails + 1)
       ELSE /\ flights' = [flights EXCEPT ![i] =
                   [@ EXCEPT !.pc = "backoff",
                             !.wait = BackoffDelay(flights[i].attempt),
                             !.fails = @ + 1]]
            /\ last' = Event("retryWait", flights[i].errors, sinceFlush,
                             flights[i].requests, flights[i].fails + 1)
            /\ UNCHANGED <<reportQueue, isReporting>>
  /\ UNCHANGED <<config, pair, frames, blank, hooks, manual, errorQueue, timer, timeouts, nextHandle, nextId,
                 delivered, callbackLog, fate, captured, sinceFlush,
                 sinceArrival, undelivered>>

\* the backoff delay of flight i is over: the loop's next iteration
BackoffFire(i) ==
  /\ i \in 1..Len(flights)
  /\ flights[i].pc = "backoff"
  /\ flights[i].wait = 0
  /\ raised' = IF LoopContinues(flights[i].attempt + 1)
                 THEN "none" ELSE batchReportEnd("rejected").raised
  /\ hostCalls' = 0
  /\ IF LoopContinues(flights[i].attempt + 1)
       THEN /\ flights' = [flights EXCEPT ![i] =
                   [@ EXCEPT !.pc = "request",
                             !.attempt = @ + 1,
                             !.wire = flights[i].payload,
                             !.requests = @ + 1,
                             !.age = 0,
                             !.status = 0,
                             !.body = "none"]]
            /\ last' = Event("retry", flights[i].errors, sinceFlush,
                             flights[i].requests + 1, flights[i].fails)
            /\ UNCHANGED <<reportQueue, isReporting>>
       ELSE \* the loop ends: 'Unexpected error in sendRequest' is thrown
            /\ reportQueue' = Requeue(reportQueue, flights[i].errors)
            /\ isReporting' = batchReportEnd("rejected").isReporting
            /\ flights' = RemoveAt(flights, i)
            /\ last' = Event("exhausted", flights[i].errors, sinceFlush,
                             flights[i].requests, flights[i].fails)
  /\ UNCHANGED <<config, pair, frames, blank, hooks, manual, errorQueue, timer, timeouts, nextHandle, nextId,
                 delivered, callbackLog, fate, captured, sinceFlush,
                 sinceArrival, undelivered>>

\* BackoffBase ms pass while makeRequest is followed step by step: as Tick,
\* and the attempts in makeRequest age; the abort timer of an attempt that
\* awaits fetch is not overtaken
SendTick ==
  /\ \A h \in DOMAIN timeouts : timeouts[h] > 0
  /\ \A i \in 1..Len(flights) :
       /\ flights[i].pc = "backoff" => flights[i].wait > 0
       /\ flights[i].pc = "request" => flights[i].age < Timeout
       /\ flights[i].pc = "body" =>
            flights[i].age < Timeout + MaxOverrun * BackoffBase
  /\ timeouts' = [h \in DOMAIN timeouts |-> Max(0, timeouts[h] - BackoffBase)]
  /\ flights' = [i \in 1..Len(flights) |->
                   IF flights[i].pc = "backoff"
                     THEN [flights[i] EXCEPT !.wait = Max(0, @ - BackoffBase)]
                     ELSE [flights[i] EXCEPT !.age = @ + BackoffBase]]
  /\ sinceArrival' = Min(ReportInterval, sinceArrival + BackoffBase)
  /\ last' = NoEvent("tick")
  /\ raised' = "none"
  /\ hostCalls' = 0
  /\ UNCHANGED <<config, pair, frames, blank, hooks, manual, errorQueue,
                 reportQueue, isReporting, timer, nextHandle, nextId,
                 delivered, callbackLog, fate, captured, sinceFlush,
                 undelivered>>

\* fetch of flight i resolves with the response's status line and headers:
\* clearTimeout(timeoutId), then HTTP_ERROR is thrown for a status that is
\* not ok, else response.json() is awaited
FetchResolves(i, status, body) ==
  /\ i \in 1..Len(flights)
  /\ flights[i].pc = "request"
  /\ flights[i].age < Timeout
  /\ IF makeRequest(status, body) = "HTTP_ERROR"
       THEN NetFail(i)
       ELSE /\ flights' = [flights EXCEPT ![i] =
                   [@ EXCEPT !.pc = "body", !.status = status,
                             !.body = body]]
            /\ last' = Event("headers", flights[i].errors, sinceFlush,
                             flights[i].requests, flights[i].fails)
            /\ raised' = "none"
            /\ hostCalls' = 0
            /\ UNCHANGED <<config, pair, frames, blank, hooks, manual, errorQueue,
                           reportQueue, isReporting, timer, timeouts,
                           nextHandle, nextId, delivered, callbackLog, fate,
                           captured, sinceFlush, sinceArrival, undelivered>>

\* fetch of flight i rejects before the timeout (network error)
FetchRejects(i) ==
  /\ i \in 1..Len(flights)
  /\ flights[i].pc = "request"
  /\ flights[i].age < Timeout
  /\ NetFail(i)

\* the abort timer of flight i fires while fetch is awaited: fetch rejects
\* with AbortError, makeRequest throws TIMEOUT_ERROR
AbortFire(i) ==
  /\ i \in 1..Len(flights)
  /\ flights[i].pc = "request"
  /\ flights[i].age = Timeout
  /\ NetFail(i)

\* the body of flight i's response is complete: response.json() settles
BodyDone(i) ==
  /\ i \in 1..Len(flights)
  /\ flights[i].pc = "body"
  /\ flights[i].body # "never"
  /\ IF makeRequest(flights[i].status, flights[i].body) = "success"
       THEN NetSucceed(i)
       ELSE NetFail(i)

FaultKinds == {"scriptError", "unhandledRejection", "resourceError"}

\* the browser signals one fault: a script error and an unhandled rejection
\* go to the function in the global slot, a failed resource load to every
\* capturing 'error' listener on window
Fault(kind, shape, f) ==
  LET slot == IF kind = "scriptError" THEN onerror ELSE onunhandledrejection
      orig == IF kind = "scriptError" THEN originalErrorHandler
                                      ELSE originalUnhandledRejectionHandler
      n == IF kind = "resourceError" THEN listeners
           ELSE IF slot = "sdk" THEN 1 ELSE 0
      s == Dispatch(CaptureState, f, n)
  IN  /\ nextId + n <= MaxCaptures
      /\ IF n > 0 /\ ~Normalises(shape)
           THEN /\ raised' = "TypeError"
                /\ hostCalls' = 0
                /\ last' = NoEvent(kind)
                /\ UNCHANGED <<errorQueue, reportQueue, callbackLog, timeouts,
                               timer, nextHandle, sinceFlush, sinceArrival,
                               undelivered, nextId, fate, captured>>
           ELSE /\ CaptureDone(s)
                /\ hostCalls' =
                     IF /\ kind # "resourceError"
                        /\ \/ slot = "host"
                           \/ slot = "sdk" /\ orig = "host" /\ s.raised = "none"
                       THEN 1 ELSE 0
                /\ last' = Event(kind, [i \in 1..n |-> nextId + i], <<>>, 0, 0)
      /\ UNCHANGED <<config, pair, frames, blank, hooks, manual, isReporting, flights, delivered>>

\* reportError(error): throws NO_REPORTER without a Reporter, else
\* Reporter.reportError -> sendRequest([error]) up to its first await
ReportError ==
  /\ directCalls < MaxReports
  /\ directCalls' = directCalls + 1
  /\ IF ~hasReporter
       THEN /\ raised' = "NO_REPORTER"
            /\ last' = Event("reportError", <<>>, <<>>, 0, 0)
            /\ UNCHANGED direct
       ELSE IF ~LoopContinues(1)
         THEN /\ raised' = "UNEXPECTED_ERROR"
              /\ last' = Event("reportError", <<>>, <<>>, 0, 0)
              /\ UNCHANGED direct
         ELSE /\ raised' = "none"
              /\ last' = Event("reportError", <<>>, <<>>, 1, 0)
              /\ direct' = Append(direct, [attempt |-> 1, pc |-> "request",
                                           wait |-> 0])
  /\ hostCalls' = 0
  /\ UNCHANGED <<config, pair, frames, blank, hooks, errorQueue, reportQueue, isReporting, flights,
                 timer, timeouts, nextHandle, nextId, delivered, callbackLog,
                 fate, captured, sinceFlush, sinceArrival, undelivered>>

\* the request of the i-th suspended reportError succeeds: the call resolves
DirectSucceed(i) ==
  /\ direct[i].pc = "request"
  /\ direct' = RemoveAt(direct, i)
  /\ raised' = "none"
  /\ last' = Event("reported", <<>>, <<>>, direct[i].attempt,
                   direct[i].attempt - 1)
  /\ hostCalls' = 0
  /\ UNCHANGED <<config, pair, frames, blank, hooks, directCalls, errorQueue, reportQueue,
                 isReporting, flights, timer, timeouts, nextHandle, nextId,
                 delivered, callbackLog, fate, captured, sinceFlush,
                 sinceArrival, undelivered>>

\* it fails: on the last attempt the call rejects with REPORT_FAILED, else
\* sendRequest sleeps for the backoff delay
DirectFail(i) ==
  /\ direct[i].pc = "request"
  /\ IF IsLastAttempt(direct[i].attempt)
       THEN /\ direct' = RemoveAt(direct, i)
            /\ raised' = "REPORT_FAILED"
            /\ last' = Event("reportFailed", <<>>, <<>>, direct[i].attempt,
                             direct[i].attempt)
       ELSE /\ direct' = [direct EXCEPT ![i].pc = "backoff",
                                        ![i].wait = BackoffDelay(direct[i].attempt)]
            /\ raised' = "none"
            /\ last' = Event("reportRetry", <<>>, <<>>, direct[i].attempt,
                             direct[i].attempt)
  /\ hostCalls' = 0
  /\ UNCHANGED <<config, pair, frames, blank, hooks, directCalls, errorQueue, reportQueue,
                 isReporting, flights, timer, timeouts, nextHandle, nextId,
                 delivered, callbackLog, fate, captured, sinceFlush,
                 sinceArrival, undelivered>>

\* its backoff delay is over: the next attempt's request goes out
DirectBackoffFire(i) ==
  /\ direct[i].pc = "backoff"
  /\ direct[i].wait = 0
  /\ IF LoopContinues(direct[i].attempt + 1)
       THEN /\ direct' = [direct EXCEPT ![i].pc = "request",
                                        ![i].attempt = @ + 1]
            /\ raised' = "none"
       ELSE /\ direct' = RemoveAt(direct, i)
            /\ raised' = "UNEXPECTED_ERROR"
  /\ last' = Event("reportAgain", <<>>, <<>>, direct[i].attempt + 1,
                   direct[i].attempt)
  /\ hostCalls' = 0
  /\ UNCHANGED <<config, pair, frames, blank, hooks, directCalls, errorQueue, reportQueue,
                 isReporting, flights, timer, timeouts, nextHandle, nextId,
                 delivered, callbackLog, fate, captured, sinceFlush,
                 sinceArrival, undelivered>>

\* what no FrameMonitor step touches
nonFrames == <<config, pair, hooks, manual, blank, errorQueue, reportQueue, isReporting,
               flights, timer, timeouts, nextHandle, nextId, delivered,
               callbackLog, fate, captured, sinceFlush, sinceArrival,
               undelivered>>

\* the part of the sampler's state start() and stop() leave alone
frameRest == <<isScrolling, scrollTimeoutId, scrollTimeouts, scrollFrameData,
               scrolls, sessions, sinceScroll, sessionFrames>>

\* FrameMonitor.start(), reading the enabled flag en: no-op while monitoring
\* or when disabled, else resetMetrics, the first requestAnimationFrame, the
\* update interval, the scroll listeners (monitorScroll) and one more
\* auto-report interval (autoReport)
frameMonitorStart(en) ==
  /\ IF isMonitoring \/ ~Truthy(en)
       THEN UNCHANGED <<isMonitoring, frameCount, frameHistory, fpsHistory,
                        lastUpdateFrameCount, ticks, frameStarts,
                        longFrameCount, severeFrameCount, sinceUpdate,
                        sinceFrame, rafPending, intervalOn, autoReports,
                        scrollListening, tickFrames>>
       ELSE /\ frameStarts < MaxFrameStarts
            /\ frameStarts' = frameStarts + 1
            /\ isMonitoring' = TRUE
            /\ sinceUpdate' = 0
            /\ sinceFrame' = 0
            /\ lastUpdateFrameCount' = 0
            /\ frameCount' = 0
            /\ fpsHistory' = <<>>
            /\ frameHistory' = <<>>
            /\ longFrameCount' = 0
            /\ severeFrameCount' = 0
            /\ ticks' = 0
            /\ tickFrames' = 0
            /\ rafPending' = TRUE
            /\ intervalOn' = TRUE
            /\ scrollListening' = TRUE
            /\ autoReports' = autoReports + 1
  /\ perf' = NoPerf
  /\ UNCHANGED frameRest

\* FrameMonitor.stop(): no-op unless monitoring, else cancelAnimationFrame,
\* clearInterval(updateIntervalId) and removeScrollMonitor, which removes
\* the two listeners
frameMonitorStop ==
  /\ IF ~isMonitoring
       THEN UNCHANGED <<isMonitoring, rafPending, intervalOn, scrollListening>>
       ELSE /\ isMonitoring' = FALSE
            /\ rafPending' = FALSE
            /\ intervalOn' = FALSE
            /\ scrollListening' = FALSE
  /\ perf' = NoPerf
  /\ UNCHANGED <<frameCount, frameHistory, fpsHistory, lastUpdateFrameCount,
                 ticks, frameStarts, longFrameCount, severeFrameCount,
                 sinceUpdate, sinceFrame, autoReports, tickFrames, frameRest>>

\* start() called on the sampler
FrameStart ==
  /\ frameMonitorStart(frameEnabled)
  /\ last' = NoEvent("frameStart")
  /\ raised' = "none"
  /\ hostCalls' = 0
  /\ UNCHANGED <<nonFrames, frameConfig>>

\* stop() called on the sampler
FrameStop ==
  /\ frameMonitorStop
  /\ last' = NoEvent("frameStop")
  /\ raised' = "none"
  /\ hostCalls' = 0
  /\ UNCHANGED <<nonFrames, frameConfig>>

\* monitorFrame: if (this.isScrolling) this.scrollFrameData.push(frameInfo)
recordsScrollFrame(scrolling) == scrolling

\* monitorFrame: the animation frame that ends d ms after the previous one;
\* a timer due at or before that instant runs first
MonitorFrame(d) ==
  /\ rafPending
  /\ isMonitoring
  /\ d \in durations
  /\ d >= sinceFrame
  /\ LET adv == d - sinceFrame
         frameInfo == FrameInfo(frameCount, d)
     IN  /\ sinceUpdate + adv < updateInterval
         /\ \A h \in DOMAIN scrollTimeouts : scrollTimeouts[h] > adv
         /\ scrollTimeouts' = TimeoutsAfter(adv)
         /\ sinceScroll' = SinceScrollAfter(adv)
         /\ sinceUpdate' = sinceUpdate + adv
         /\ sinceFrame' = 0
         /\ frameHistory' = Capped(Append(frameHistory, frameInfo), FrameHistoryMax)
         /\ longFrameCount' = longFrameCount + (IF frameInfo.isLongFrame THEN 1 ELSE 0)
         /\ severeFrameCount' = severeFrameCount + (IF frameInfo.isSevereFrame THEN 1 ELSE 0)
         /\ scrollFrameData' = IF recordsScrollFrame(isScrolling)
                                 THEN Append(scrollFrameData, frameInfo)
                                 ELSE scrollFrameData
         /\ sessionFrames' = IF sinceScroll >= 0 /\ sinceScroll + adv < ScrollIdle
                               THEN Append(sessionFrames, frameInfo)
                               ELSE sessionFrames
  /\ frameCount' = frameCount + 1
  /\ tickFrames' = tickFrames + 1
  /\ perf' = NoPerf
  /\ last' = NoEvent("frame")
  /\ raised' = "none"
  /\ hostCalls' = 0
  /\ UNCHANGED <<nonFrames, frameConfig, isMonitoring, fpsHistory,
                 lastUpdateFrameCount, ticks, frameStarts, rafPending,
                 intervalOn, autoReports, scrollListening, isScrolling,
                 scrollTimeoutId, scrolls, sessions>>

\* updateFPS: the interval timer fires, on time, before the next frame and
\* before any scroll-idle timeout due later; it pushes the fps of the
\* interval and hands a snapshot to onPerformanceData
UpdateFPS ==
  /\ intervalOn
  /\ isMonitoring
  /\ ticks < horizon
  /\ LET adv == updateInterval - sinceUpdate
         history == Capped(Append(fpsHistory,
                              [tick |-> ticks + 1,
                               fps |-> currentFps(frameCount - lastUpdateFrameCount,
                                                  sinceUpdate + adv)]),
                           FpsHistoryMax)
     IN  /\ \E d \in durations : d - sinceFrame >= adv
         /\ \A h \in DOMAIN scrollTimeouts : scrollTimeouts[h] > adv
         /\ scrollTimeouts' = TimeoutsAfter(adv)
         /\ sinceScroll' = SinceScrollAfter(adv)
         /\ sinceFrame' = sinceFrame + adv
         /\ fpsHistory' = history
         /\ perf' = Emitted(1, getPerformanceData(0, frameCount, frameCount,
                                   longFrameCount, severeFrameCount,
                                   frameHistory, history), 0)
  /\ sinceUpdate' = 0
  /\ lastUpdateFrameCount' = frameCount
  /\ ticks' = ticks + 1
  /\ tickFrames' = 0
  /\ last' = NoEvent("updateFPS")
  /\ raised' = "none"
  /\ hostCalls' = 0
  /\ UNCHANGED <<nonFrames, frameConfig, isMonitoring, frameCount,
                 frameHistory, frameStarts, longFrameCount, severeFrameCount,
                 rafPending, intervalOn, autoReports, scrollListening,
                 isScrolling, scrollTimeoutId, scrollFrameData, scrolls,
                 sessions, sessionFrames>>

\* one of the auto-report intervals fires
AutoReport ==
  /\ autoReports > 0
  /\ perf' = IF AutoReportEmits(isMonitoring)
               THEN Emitted(1, getPerformanceData(sinceUpdate, frameCount,
                                   lastUpdateFrameCount, longFrameCount,
                                   severeFrameCount, frameHistory,
                                   fpsHistory), 0)
               ELSE NoPerf
  /\ last' = NoEvent("autoReport")
  /\ raised' = "none"
  /\ hostCalls' = 0
  /\ UNCHANGED <<nonFrames, frameConfig, isMonitoring, frameCount,
                 frameHistory, fpsHistory, lastUpdateFrameCount, ticks,
                 frameStarts, longFrameCount, severeFrameCount, sinceUpdate,
                 sinceFrame, rafPending, intervalOn, autoReports, scroll,
                 tickFrames>>

\* getPerformanceData(), called by the page
GetPerformanceData ==
  /\ perf' = Emitted(0, getPerformanceData(sinceUpdate, frameCount,
                            lastUpdateFrameCount, longFrameCount,
                            severeFrameCount, frameHistory, fpsHistory), 0)
  /\ LET after == BookkeepingAfterQuery(<<sinceUpdate, lastUpdateFrameCount>>)
     IN  /\ sinceUpdate' = after[1]
         /\ lastUpdateFrameCount' = after[2]
  /\ last' = NoEvent("getPerformanceData")
  /\ raised' = "none"
  /\ hostCalls' = 0
  /\ UNCHANGED <<nonFrames, frameConfig, isMonitoring, frameCount,
                 frameHistory, fpsHistory, ticks, frameStarts,
                 longFrameCount, severeFrameCount, sinceFrame, rafPending,
                 intervalOn, autoReports, scroll, tickFrames>>

\* handleScroll: a scroll event while the listener is registered
Scroll ==
  /\ scrollListening
  /\ scrolls < MaxScrolls
  /\ scrolls' = scrolls + 1
  /\ IF ~isScrolling
       THEN /\ isScrolling' = TRUE
            /\ scrollFrameData' = <<>>
            /\ sessions' = sessions + 1
       ELSE UNCHANGED <<isScrolling, scrollFrameData, sessions>>
  /\ scrollTimeouts' = handleScrollTimeouts(scrollTimeouts, scrollTimeoutId,
                                            scrolls + 1)
  /\ scrollTimeoutId' = scrolls + 1
  /\ sinceScroll' = 0
  /\ sessionFrames' = IF sinceScroll < 0 \/ sinceScroll >= ScrollIdle
                        THEN <<>> ELSE sessionFrames
  /\ perf' = NoPerf
  /\ last' = NoEvent("scroll")
  /\ raised' = "none"
  /\ hostCalls' = 0
  /\ UNCHANGED <<nonFrames, frameConfig, isMonitoring, frameCount,
                 frameHistory, fpsHistory, lastUpdateFrameCount, ticks,
                 frameStarts, longFrameCount, severeFrameCount, sinceUpdate,
                 sinceFrame, rafPending, intervalOn, autoReports,
                 scrollListening, tickFrames>>

\* the scroll-idle timeout h fires, when it is due, before the next frame
\* and not after the update interval: handleScrollEnd. The two clocks of
\* the sampler are read only while it monitors and advance only then.
ScrollEnd(h) ==
  /\ h \in DOMAIN scrollTimeouts
  /\ LET adv == scrollTimeouts[h]
     IN  /\ \A x \in DOMAIN scrollTimeouts : scrollTimeouts[x] >= adv
         /\ intervalOn => sinceUpdate + adv <= updateInterval
         /\ rafPending => \E d \in durations : d - sinceFrame >= adv
         /\ scrollTimeouts' = clearTimeout(TimeoutsAfter(adv), h)
         /\ sinceScroll' = SinceScrollAfter(adv)
         /\ sinceUpdate' = IF isMonitoring THEN sinceUpdate + adv ELSE sinceUpdate
         /\ sinceFrame' = IF isMonitoring THEN sinceFrame + adv ELSE sinceFrame
  /\ isScrolling' = FALSE
  /\ perf' = IF isScrolling THEN Emitted(0, NoSnapshot, ScrollEndEmits)
               ELSE NoPerf
  /\ last' = NoEvent(IF isScrolling THEN "scrollEnd" ELSE "scrollEndNoop")
  /\ raised' = "none"
  /\ hostCalls' = 0
  /\ UNCHANGED <<nonFrames, frameConfig, isMonitoring, frameCount,
                 frameHistory, fpsHistory, lastUpdateFrameCount, ticks,
                 frameStarts, longFrameCount, severeFrameCount, rafPending,
                 intervalOn, autoReports, scrollListening, scrollTimeoutId,
                 scrollFrameData, scrolls, sessions, sessionFrames,
                 tickFrames>>

\* detectBlankScreen on a page that decides how many of the sampled points
\* are blank and whether the viewport has an area, then reportBlankScreen
\* for a blank result: the consumer the orchestrator registered runs
\* handleErrorInfo and triggerReport (the errorFilter accepts)
Detect(empty, b) ==
  /\ b \in 0..sampleCount
  /\ empty => b = 0
  /\ viewportEmpty' = empty
  /\ blankPoints' = b
  /\ isBlankScreen' = detectBlankScreen(empty, b, sampleCount, threshold)
  /\ IF reportsBlankScreen(detectBlankScreen(empty, b, sampleCount, threshold))
       THEN /\ nextId < MaxCaptures
            /\ forwarded' = 1
            /\ CaptureDone(AfterCapture(CaptureState, "accept"))
       ELSE /\ forwarded' = 0
            /\ raised' = "none"
            /\ UNCHANGED <<errorQueue, reportQueue, callbackLog, timeouts,
                           timer, nextHandle, sinceFlush, sinceArrival,
                           undelivered, nextId, fate, captured>>
  /\ hostCalls' = 0
  /\ UNCHANGED <<config, pair, hooks, manual, frames, sampleCount, threshold,
                 blankEnabled, cfgBlankEnabled, readyState, isReporting, flights, delivered>>

\* manualCheck: one detection, resolved with its result
ManualCheck(empty, b) ==
  /\ Detect(empty, b)
  /\ manualResult' = isBlankScreen'
  /\ last' = NoEvent("manualCheck")
  /\ UNCHANGED schedule

\* BlankScreenDetector.start(), reading the enabled flag en
blankScreenDetectorStart(en) ==
  IF ~Truthy(en)
    THEN UNCHANGED schedule
    ELSE IF isChecking
      THEN /\ detectorOn' = TRUE
           /\ UNCHANGED <<isChecking, checkTimer, checkTimeouts, checkHandle,
                          readyListeners, blankStarts>>
      ELSE /\ blankStarts < MaxBlankStarts
           /\ blankStarts' = blankStarts + 1
           /\ detectorOn' = TRUE
           /\ isChecking' = TRUE
           /\ IF readyState = "loading"
                THEN /\ readyListeners' = readyListeners + 1
                     /\ UNCHANGED <<checkTimer, checkTimeouts, checkHandle>>
                ELSE /\ checkTimeouts' =
                          scheduleCheck(checkTimeouts, checkHandle, 1)
                     /\ checkHandle' = checkHandle + 1
                     /\ checkTimer' = checkHandle + 1
                     /\ UNCHANGED readyListeners

\* BlankScreenDetector.stop(): clearTimeout(checkTimer); the
\* DOMContentLoaded listeners stay registered
blankScreenDetectorStop ==
  /\ checkTimeouts' = IF checkTimer # 0
                        THEN clearTimeout(checkTimeouts, checkTimer)
                        ELSE checkTimeouts
  /\ checkTimer' = 0
  /\ isChecking' = FALSE
  /\ detectorOn' = FALSE
  /\ UNCHANGED <<checkHandle, readyListeners, blankStarts>>

\* start() called on the detector
BlankStart ==
  /\ blankScreenDetectorStart(blankEnabled)
  /\ last' = NoEvent("blankStart")
  /\ raised' = "none"
  /\ hostCalls' = 0
  /\ UNCHANGED <<config, pair, hooks, manual, frames, sampleCount, threshold,
                 blankEnabled, cfgBlankEnabled, readyState, detection,
                 errorQueue, reportQueue, isReporting, flights, timer,
                 timeouts, nextHandle, nextId, delivered, callbackLog, fate,
                 captured, sinceFlush, sinceArrival, undelivered>>

\* stop() called on the detector
BlankStop ==
  /\ blankScreenDetectorStop
  /\ last' = NoEvent("blankStop")
  /\ raised' = "none"
  /\ hostCalls' = 0
  /\ UNCHANGED <<config, pair, hooks, manual, frames, sampleCount, threshold,
                 blankEnabled, cfgBlankEnabled, readyState, detection,
                 errorQueue, reportQueue, isReporting, flights, timer,
                 timeouts, nextHandle, nextId, delivered, callbackLog, fate,
                 captured, sinceFlush, sinceArrival, undelivered>>

\* the document fires DOMContentLoaded: every listener start() registered
\* runs scheduleCheck, each overwriting checkTimer
DomContentLoaded ==
  /\ readyState = "loading"
  /\ readyState' = "interactive"
  /\ checkTimeouts' = scheduleCheck(checkTimeouts, checkHandle, readyListeners)
  /\ checkHandle' = checkHandle + readyListeners
  /\ checkTimer' = IF readyListeners > 0 THEN checkHandle + readyListeners
                                          ELSE checkTimer
  /\ last' = NoEvent("DOMContentLoaded")
  /\ raised' = "none"
  /\ hostCalls' = 0
  /\ UNCHANGED <<config, pair, hooks, manual, frames, sampleCount, threshold,
                 blankEnabled, cfgBlankEnabled, detection, isChecking,
                 readyListeners,
                 detectorOn, blankStarts, errorQueue, reportQueue,
                 isReporting, flights, timer, timeouts, nextHandle, nextId,
                 delivered, callbackLog, fate, captured, sinceFlush,
                 sinceArrival, undelivered>>

\* BlankDelay ms pass; no check that is due is overtaken
DetectorTick ==
  /\ checkTimeouts # <<>>
  /\ \A h \in DOMAIN checkTimeouts : checkTimeouts[h] > 0
  /\ checkTimeouts' = [h \in DOMAIN checkTimeouts |->
                         Max(0, checkTimeouts[h] - BlankDelay)]
  /\ last' = NoEvent("tick")
  /\ raised' = "none"
  /\ hostCalls' = 0
  /\ UNCHANGED <<config, pair, hooks, manual, frames, sampleCount, threshold,
                 blankEnabled, cfgBlankEnabled, readyState, detection, isChecking, checkTimer,
                 checkHandle, readyListeners, detectorOn, blankStarts,
                 errorQueue, reportQueue, isReporting, flights, timer,
                 timeouts, nextHandle, nextId, delivered, callbackLog, fate,
                 captured, sinceFlush, sinceArrival, undelivered>>

\* the timeout h of scheduleCheck fires: performCheck, whose finally
\* resets isChecking
PerformCheck(h, empty, b) ==
  /\ h \in DOMAIN checkTimeouts
  /\ checkTimeouts[h] = 0
  /\ checkTimeouts' = clearTimeout(checkTimeouts, h)
  /\ Detect(empty, b)
  /\ isChecking' = FALSE
  /\ last' = NoEvent("performCheck")
  /\ UNCHANGED <<manualResult, checkTimer, checkHandle, readyListeners,
                 detectorOn, blankStarts>>

\* the sampler's state other than its configuration
sampler == <<isMonitoring, frameCount, frameHistory, fpsHistory,
             lastUpdateFrameCount, ticks, frameStarts, longFrameCount,
             severeFrameCount, sinceUpdate, sinceFrame, rafPending,
             intervalOn, autoReports, scroll, tickFrames, perf>>

\* LeoWebMonitor.start(): setupGlobalErrorHandlers when autoCapture is on,
\* blankScreenDetector.start() and frameMonitor.start() when the
\* orchestrator's configuration enables them
Start ==
  /\ IF StartIsNoop
       THEN UNCHANGED <<hooks, schedule, sampler>>
       ELSE /\ starts < MaxStarts
            /\ starts' = starts + 1
            /\ preError' = onerror
            /\ preRejection' = onunhandledrejection
            /\ IF autoCapture
                 THEN /\ originalErrorHandler' = onerror
                      /\ onerror' = "sdk"
                      /\ originalUnhandledRejectionHandler' = onunhandledrejection
                      /\ onunhandledrejection' = "sdk"
                      /\ listeners' = listeners + 1
                 ELSE UNCHANGED <<originalErrorHandler, onerror,
                                  originalUnhandledRejectionHandler,
                                  onunhandledrejection, listeners>>
            /\ IF Truthy(cfgBlankEnabled)
                 THEN blankScreenDetectorStart(blankEnabled)
                 ELSE UNCHANGED schedule
            /\ IF Truthy(cfgFrameEnabled)
                 THEN frameMonitorStart(frameEnabled)
                 ELSE UNCHANGED sampler
            /\ isInitialized' = TRUE
  /\ last' = NoEvent(IF isInitialized THEN "startAgain" ELSE "start")
  /\ raised' = "none"
  /\ hostCalls' = 0
  /\ UNCHANGED <<config, pair, frameConfig, sampleCount, threshold, blankEnabled,
                 cfgBlankEnabled, readyState, detection, manual, errorQueue,
                 reportQueue, isReporting, flights, timer, timeouts,
                 nextHandle, nextId, delivered, callbackLog, fate, captured,
                 sinceFlush, sinceArrival, undelivered>>

\* LeoWebMonitor.stop(): removeGlobalErrorHandlers, whatever autoCapture is,
\* blankScreenDetector.stop() and frameMonitor.stop()
Stop ==
  /\ IF ~isInitialized
       THEN UNCHANGED <<hooks, schedule, sampler>>
       ELSE /\ onerror' = Restore(originalErrorHandler)
            /\ onunhandledrejection' = Restore(originalUnhandledRejectionHandler)
            /\ blankScreenDetectorStop
            /\ frameMonitorStop
            /\ isInitialized' = FALSE
            /\ UNCHANGED <<originalErrorHandler,
                           originalUnhandledRejectionHandler, listeners,
                           preError, preRejection, starts>>
  /\ last' = NoEvent("stop")
  /\ raised' = "none"
  /\ hostCalls' = 0
  /\ UNCHANGED <<config, pair, frameConfig, sampleCount, threshold, blankEnabled,
                 cfgBlankEnabled, readyState, detection, manual, errorQueue,
                 reportQueue, isReporting, flights, timer, timeouts,
                 nextHandle, nextId, delivered, callbackLog, fate, captured,
                 sinceFlush, sinceArrival, undelivered>>

\* what updateConfig's argument can hold for a subsystem: no key for it
\* ("absent"), the key with the value undefined ("unset"), an object
\* without enabled ("noEnabled"), or an object whose enabled is true, false
\* or undefined
ConfigUpdates == {"absent", "unset", "noEnabled", "true", "false", "undefined"}

\* deepMerge(this.config, newConfig), on the subsystem's enabled flag
deepMerge(flag, u) ==
  IF u = "absent" \/ u = "noEnabled" THEN flag
  ELSE IF u = "unset" THEN "undefined"
  ELSE u

\* if (newConfig.x) subsystem.updateConfig(newConfig.x), which is
\* { ...this.config, ...newConfig.x }, on the subsystem's own enabled flag
updateConfig(flag, u) ==
  IF u = "absent" \/ u = "unset" \/ u = "noEnabled" THEN flag ELSE u

\* updateConfig: newConfig.x && this.isInitialized &&
\* newConfig.x.enabled !== undefined
Reevaluates(u) == isInitialized /\ (u = "true" \/ u = "false")

\* LeoWebMonitor.updateConfig(newConfig), where newConfig holds bs for
\* blankScreen and fm for frameMonitor
UpdateConfig(bs, fm) ==
  /\ bs # "unset"
  /\ cfgBlankEnabled' = deepMerge(cfgBlankEnabled, bs)
  /\ blankEnabled' = updateConfig(blankEnabled, bs)
  /\ cfgFrameEnabled' = deepMerge(cfgFrameEnabled, fm)
  /\ frameEnabled' = updateConfig(frameEnabled, fm)
  /\ IF Reevaluates(bs)
       THEN IF Truthy(bs)
              THEN blankScreenDetectorStart(updateConfig(blankEnabled, bs))
              ELSE blankScreenDetectorStop
       ELSE UNCHANGED schedule
  /\ IF Reevaluates(fm)
       THEN IF Truthy(fm)
              THEN frameMonitorStart(updateConfig(frameEnabled, fm))
              ELSE frameMonitorStop
       ELSE UNCHANGED sampler
  /\ last' = NoEvent("updateConfig")
  /\ raised' = "none"
  /\ hostCalls' = 0
  /\ UNCHANGED <<config, pair, hooks, manual, longFrameThreshold,
                 severeFrameThreshold, updateInterval, durations, horizon,
                 sampleCount, threshold, readyState, detection, errorQueue,
                 reportQueue, isReporting, flights, timer, timeouts,
                 nextHandle, nextId, delivered, callbackLog, fate, captured,
                 sinceFlush, sinceArrival, undelivered>>

\* getFrameMonitorStatus()
getFrameMonitorStatus ==
  [enabled |-> Truthy(cfgFrameEnabled),
   isMonitoring |-> isInitialized /\ Truthy(cfgFrameEnabled)]

\* the hooks that run when the function in a slot of kind k is called with
\* a fault, from the slot value v on: the hook of a monitor makes a record
\* in that monitor and then calls the handler the monitor saved
RECURSIVE hooksRun(_, _, _)
hooksRun(v, k, fuel) ==
  IF fuel = 0 \/ v \notin Instances THEN <<>>
  ELSE <<v>> \o hooksRun(originals[v][k], k, fuel - 1)

\* the page installs its own handler in the slot k, before any monitor starts
PageInstalls(k) ==
  /\ \A i \in Instances : ~everStarted[i]
  /\ slots[k] = "null"
  /\ slots' = [slots EXCEPT ![k] = "host"]
  /\ pageSlots' = [pageSlots EXCEPT ![k] = "host"]
  /\ last' = NoEvent("pageInstalls")
  /\ raised' = "none"
  /\ hostCalls' = 0
  /\ UNCHANGED <<config, hooks, manual, frames, blank, originals,
                 initialized, everStarted, errorListeners, got, errorQueue,
                 reportQueue, isReporting, flights, timer, timeouts,
                 nextHandle, nextId, delivered, callbackLog, fate, captured,
                 sinceFlush, sinceArrival, undelivered>>

\* start() of the monitor i (autoCapture on), A first:
\* setupGlobalErrorHandlers saves both slots, installs its hooks and
\* registers its 'error' listener
PairStart(i) ==
  /\ ~everStarted[i]
  /\ i = "B" => everStarted["A"]
  /\ originals' = [originals EXCEPT ![i] = slots]
  /\ slots' = [k \in SlotKinds |-> i]
  /\ errorListeners' = [errorListeners EXCEPT ![i] = @ + 1]
  /\ initialized' = [initialized EXCEPT ![i] = TRUE]
  /\ everStarted' = [everStarted EXCEPT ![i] = TRUE]
  /\ last' = NoEvent("pairStart")
  /\ raised' = "none"
  /\ hostCalls' = 0
  /\ UNCHANGED <<config, hooks, manual, frames, blank, got, pageSlots,
                 errorQueue, reportQueue, isReporting, flights, timer,
                 timeouts, nextHandle, nextId, delivered, callbackLog, fate,
                 captured, sinceFlush, sinceArrival, undelivered>>

\* stop() of the monitor i: removeGlobalErrorHandlers writes the saved
\* values back
PairStop(i) ==
  /\ initialized[i]
  /\ slots' = [k \in SlotKinds |-> Restore(originals[i][k])]
  /\ initialized' = [initialized EXCEPT ![i] = FALSE]
  /\ last' = NoEvent("pairStop")
  /\ raised' = "none"
  /\ hostCalls' = 0
  /\ UNCHANGED <<config, hooks, manual, frames, blank, originals,
                 everStarted, errorListeners, got, pageSlots, errorQueue,
                 reportQueue, isReporting, flights, timer, timeouts,
                 nextHandle, nextId, delivered, callbackLog, fate, captured,
                 sinceFlush, sinceArrival, undelivered>>

\* the browser signals one well-formed fault on the page of the two
\* monitors: a script error and an unhandled rejection go to the function
\* in the global slot, a failed resource load to every capturing listener
PairFault(kind) ==
  /\ got' = [i \in Instances |->
               IF kind = "resourceError" THEN errorListeners[i]
               ELSE Cardinality({n \in 1..Len(hooksRun(slots[kind], kind,
                                                      Cardinality(Instances))) :
                                   hooksRun(slots[kind], kind,
                                            Cardinality(Instances))[n] = i})]
  /\ last' = NoEvent(IF kind = "resourceError" THEN "pairResourceFault"
                                                ELSE "pairFault")
  /\ raised' = "none"
  /\ hostCalls' = 0
  /\ UNCHANGED <<config, hooks, manual, frames, blank, slots, originals,
                 initialized, everStarted, errorListeners, pageSlots,
                 errorQueue, reportQueue, isReporting, flights, timer,
                 timeouts, nextHandle, nextId, delivered, callbackLog, fate,
                 captured, sinceFlush, sinceArrival, undelivered>>

\* the capture queue and the batch delivery; the callback does not raise
\* (SpecFaulty has the callback that does)
Next ==
  \/ \E f \in {"accept", "reject", "throw"} : CaptureError(f)
  \/ ClearErrors
  \/ Tick
  \/ \E h \in DOMAIN timeouts : TimerFire(h)
  \/ \E i \in 1..Len(flights) : NetSucceed(i)
  \/ \E i \in 1..Len(flights) : NetFail(i)
  \/ \E i \in 1..Len(flights) : BackoffFire(i)

Spec == Init /\ [][Next]_vars

\* the same program in a page that starts and stops the monitor and in which
\* faults occur, for every capacity up to the number of captures, every
\* autoCapture setting and every pair of handlers the
\* page installed beforehand, within one debounce interval (no timer fires);
\* the filter and the callback do not raise
HooksInit ==
  /\ CoreInit
  /\ FramesDefault
  /\ BlankAt(DefaultSampleCount, DefaultThreshold)
  /\ maxQueueSize \in 0..MaxCaptures
  /\ retryTimes = 1
  /\ \E a \in BOOLEAN, e \in {"null", "host"}, r \in {"null", "host"} :
       HooksAt(a, e, r)

HooksNext ==
  \/ CaptureError("accept")
  \/ ClearErrors
  \/ Start
  \/ Stop
  \/ \E kind \in FaultKinds, shape \in {"ok", "malformed"},
        f \in {"accept", "reject"} : Fault(kind, shape, f)

SpecHooks == HooksInit /\ [][HooksNext]_vars

\* the program with a filter and a callback that may raise; one delivery
\* attempt per flush
FaultyInit == Init /\ retryTimes = 1

FaultyNext ==
  \/ \E f \in Verdicts : CaptureError(f)
  \/ ClearErrors
  \/ Tick
  \/ \E h \in DOMAIN timeouts : TimerFire(h)
  \/ \E i \in 1..Len(flights) : NetSucceed(i)
  \/ \E i \in 1..Len(flights) : NetFail(i)

SpecFaulty == FaultyInit /\ [][FaultyNext]_vars

\* the program with manual immediate reports next to the batch delivery,
\* for every combination of endpoint and apiKey; capacity 1, at most two
\* attempts per request, and the filter accepts
ReportInit == Init /\ maxQueueSize = 1 /\ retryTimes <= 2

ReportNext ==
  \/ CaptureError("accept")
  \/ ClearErrors
  \/ Tick
  \/ \E h \in DOMAIN timeouts : TimerFire(h)
  \/ \E i \in 1..Len(flights) : NetSucceed(i)
  \/ \E i \in 1..Len(flights) : NetFail(i)
  \/ \E i \in 1..Len(flights) : BackoffFire(i)
  \/ ReportError
  \/ \E i \in 1..Len(direct) : DirectSucceed(i)
  \/ \E i \in 1..Len(direct) : DirectFail(i)
  \/ \E i \in 1..Len(direct) : DirectBackoffFire(i)

SpecReport == ReportInit /\ [][ReportNext]_vars

\* the Frame Sampler on its own, in one configuration of the rest
FrameInit ==
  /\ Init
  /\ maxQueueSize = MaxQueueSize
  /\ retryTimes = MaxRetryTimes
  /\ endpoint
  /\ apiKey

FrameNext ==
  \/ FrameStart
  \/ FrameStop
  \/ \E d \in durations : MonitorFrame(d)
  \/ UpdateFPS
  \/ AutoReport

SpecFrame == FrameInit /\ [][FrameNext]_vars

\* the same program with the fairness its scheduling gives: time passes, due
\* timers fire, and the transport succeeds if it is tried again and again;
\* an endpoint is configured, at least one attempt is allowed per flush and
\* the host page never calls clearErrors
LiveInit == Init /\ hasReporter /\ retryTimes >= 1

LiveNext ==
  \/ \E f \in {"accept", "reject", "throw"} : CaptureError(f)
  \/ Tick
  \/ \E h \in DOMAIN timeouts : TimerFire(h)
  \/ \E i \in 1..Len(flights) : NetSucceed(i)
  \/ \E i \in 1..Len(flights) : NetFail(i)
  \/ \E i \in 1..Len(flights) : BackoffFire(i)

LiveSpec ==
  /\ LiveInit
  /\ [][LiveNext]_vars
  /\ WF_vars(Tick)
  /\ WF_vars(\E h \in DOMAIN timeouts : TimerFire(h))
  /\ WF_vars(\E i \in 1..Len(flights) : BackoffFire(i))
  /\ SF_vars(\E i \in 1..Len(flights) : NetSucceed(i))

\* ------------------------------------------------------- derived notions
FlightIds(fs) == {fs[i].fid : i \in 1..Len(fs)}

InFlight == UNION {Range(flights[i].errors) : i \in 1..Len(flights)}

DeliveredSet == UNION {Range(delivered[i]) : i \in 1..Len(delivered)}

Accepted == {id \in 1..Len(fate) : fate[id] = "accept" \/ fate[id] = "cbthrow"}

\* the last step was a firing of the quiet-period timer
TimerFired(l) ==
  l.op = "timerNoop" \/ l.op = "flush" \/ (l.op = "exhausted" /\ l.requests = 0)

\* the last step was a firing of the quiet-period timer that started a flush
FlushStarted(l) == l.op = "flush" \/ (l.op = "exhausted" /\ l.requests = 0)

\* ------------------------------------------------------------------ claims

\* C1 (as stated): with no delivery endpoint, the capture queue is the last
\* min(N, C) accepted captures in capture order, for every capacity C >= 0.
C1_QueueIsLastMinNC ==
  ~hasReporter =>
    errorQueue = LastK(captured, Min(Len(captured), maxQueueSize))

\* C1, for capacities C >= 1 only: the statement above holds.
C1_PositiveCapacity ==
  (~hasReporter /\ maxQueueSize >= 1) =>
    errorQueue = LastK(captured, Min(Len(captured), maxQueueSize))

\* C2 (as stated, for the capacities C >= 1 at which the capture queue itself
\* respects C): the pending list never holds more than maxErrorQueueSize records.
C2_PendingBounded ==
  maxQueueSize >= 1 => Len(reportQueue) <= maxQueueSize

\* C3: at most one batch flush is outstanding at any time, and a quiet-period
\* timer that fires while a flush is outstanding or while the pending list is
\* empty starts no request and changes neither the pending list nor the batch
\* in flight.
C3_SingleFlight ==
  /\ [](Len(flights) <= 1)
  /\ [][(TimerFired(last') /\ (Len(flights) >= 1 \/ reportQueue = <<>>))
          => UNCHANGED <<reportQueue, flights, isReporting, delivered>>]_vars

C3_Witness ==
  /\ last.op = "timerNoop"
  /\ Len(flights) = 1
  /\ reportQueue # <<>>

\* C4: when a flush starts, its batch is the whole pending list in order and
\* the pending list becomes empty in the same step; while the batch is in
\* flight its contents never change, every attempt sends exactly them, and an
\* arrival is appended to the pending list.
C4_FlushDetachesWholeList ==
  [][/\ \A i \in 1..Len(flights') :
          flights'[i].fid \notin FlightIds(flights) =>
            /\ flights'[i].errors = reportQueue
            /\ flights'[i].wire = reportQueue
            /\ reportQueue' = <<>>
     /\ \A i \in 1..Len(flights') : \A j \in 1..Len(flights) :
          flights'[i].fid = flights[j].fid =>
            /\ flights'[i].errors = flights[j].errors
            /\ flights'[i].wire = flights[j].errors
            /\ Range(flights'[i].errors) \cap Range(sinceFlush') = {}
     /\ (Len(flights) >= 1 /\ last'.op = "capture" /\ fate'[nextId'] = "accept")
          => /\ reportQueue' = Append(reportQueue, nextId')
             /\ flights' = flights
    ]_vars

C4_Witness ==
  \E i \in 1..Len(flights) :
    /\ flights[i].requests >= 2
    /\ flights[i].pc = "request"
    /\ Len(flights[i].errors) >= 2
    /\ reportQueue # <<>>

\* C5: when a flush has used up its attempts, the pending list is the failed
\* batch in its original order followed by the records that arrived during the
\* flush, in arrival order; with no such arrival the pending count is the
\* batch size.
C5_FailedBatchRequeuedAtFront ==
  last.op = "exhausted" =>
    /\ last.fails = retryTimes
    /\ reportQueue = last.batch \o last.arrived
    /\ (last.arrived = <<>> => getPendingCount = Len(last.batch))

C5_Witness ==
  /\ last.op = "exhausted"
  /\ last.requests >= 2
  /\ Len(last.batch) >= 2
  /\ last.arrived # <<>>

\* C6: a flush whose first k-1 attempts fail and whose k-th succeeds makes
\* exactly k attempts, delivers its batch exactly once and requeues nothing;
\* with no arrival in between the pending count is then 0; no flush makes
\* more than retryTimes attempts.
C6_SuccessAfterRetries ==
  /\ \A i \in 1..Len(flights) : flights[i].requests <= retryTimes
  /\ last.op = "exhausted" => last.requests <= retryTimes
  /\ last.op = "delivered" =>
       /\ last.requests = last.fails + 1
       /\ last.requests <= retryTimes
       /\ Cardinality({j \in 1..Len(delivered) : delivered[j] = last.batch}) = 1
       /\ Range(last.batch) \cap Range(reportQueue) = {}
       /\ reportQueue = last.arrived
       /\ (last.arrived = <<>> => getPendingCount = 0)

C6_Witness ==
  /\ last.op = "delivered"
  /\ last.fails >= 1
  /\ last.requests = retryTimes
  /\ last.arrived = <<>>

\* C7 (as stated): every record handed to the delivery queue is eventually
\* delivered, given that timers fire and the transport eventually succeeds.
C7_EventuallyDelivered ==
  \A r \in 1..MaxCaptures :
    (r \in Range(reportQueue)) ~> (r \in DeliveredSet)

\* C8: a flush is started only by the firing of the quiet-period timer, which
\* happens only when ReportInterval ms have passed since the last arrival;
\* every arrival cancels the pending timer and arms a new one, so at most one
\* quiet-period timer is pending.
C8_DebouncedFlush ==
  /\ [](Cardinality(DOMAIN timeouts) <= 1)
  /\ [][/\ (Len(flights') > Len(flights) \/ FlushStarted(last')) =>
             /\ sinceArrival >= ReportInterval
             /\ \E h \in DOMAIN timeouts :
                  timeouts[h] = 0 /\ h \notin DOMAIN timeouts'
        /\ nextHandle' # nextHandle =>
             /\ DOMAIN timeouts' = {nextHandle'}
             /\ timeouts'[nextHandle'] = ReportInterval
             /\ flights' = flights
       ]_vars

C8_Witness ==
  /\ last.op = "flush"
  /\ Len(last.batch) >= 2
  /\ nextHandle >= 2

\* C9 (as stated): getPendingCount is the number of records handed to the
\* delivery queue and not yet delivered, also while a batch is in flight.
C9_PendingCountsUndelivered ==
  hasReporter => getPendingCount = Cardinality(undelivered)

\* C9, what the code keeps: getPendingCount is the number of such records
\* that are not part of a batch in flight.
C9_PendingExcludesInFlight ==
  hasReporter =>
    /\ Range(reportQueue) = undelivered \ InFlight
    /\ getPendingCount = Cardinality(undelivered \ InFlight)

\* C10: a record the filter rejects is neither enqueued, nor passed to the
\* callback, nor handed to the delivery queue; if every record is rejected the
\* capture queue stays empty; each accepted record is passed to the callback
\* exactly once, within its capture call and after it was enqueued.
C10_FilterAndCallback ==
  /\ \A id \in 1..Len(fate) :
       fate[id] = "reject" =>
         /\ id \notin Range(errorQueue) \cup Range(reportQueue)
         /\ id \notin InFlight \cup DeliveredSet \cup undelivered
         /\ \A k \in 1..Len(callbackLog) : callbackLog[k].id # id
  /\ (\A id \in 1..Len(fate) : fate[id] = "reject") => errorQueue = <<>>
  /\ \A id \in Accepted :
       /\ Cardinality({k \in 1..Len(callbackLog) : callbackLog[k].id = id}) = 1
       /\ \A k \in 1..Len(callbackLog) :
            callbackLog[k].id = id => callbackLog[k].enqueued
  /\ Len(callbackLog) = Cardinality(Accepted)
  /\ \A k \in 1..Len(callbackLog) : \A m \in 1..Len(callbackLog) :
       k < m => callbackLog[k].id < callbackLog[m].id

C10_Witness ==
  /\ Len(fate) = MaxCaptures
  /\ \E a \in 1..Len(fate) : \E b \in 1..Len(fate) :
       a < b /\ fate[a] = "reject" /\ fate[b] = "accept"
  /\ last.op = "capture"
  /\ fate[Len(fate)] = "reject"

\* C17: a flush that fails on every attempt raises nothing into the host page,
\* and after every flush outcome, success or exhaustion, the single-flight
\* guard is released.
C17_FlushNeverRaises ==
  /\ (last.op = "delivered" \/ last.op = "exhausted") =>
       (raised = "none" /\ ~isReporting)
  /\ Len(flights) = 0 => ~isReporting

C17_Witness ==
  /\ last.op = "exhausted"
  /\ retryTimes >= 2
  /\ last.fails = retryTimes
  /\ ~isReporting

\* C18: an exception of the filter or of the callback is caught inside the
\* capture: the call raises nothing; a record whose filter raised is in no
\* queue and was not passed to the callback; a record whose callback raised
\* is enqueued and, with a reporter, handed to the delivery queue in the same
\* call.
C18_CaptureFaultsCaught ==
  /\ last.op = "capture" => raised = "none"
  /\ \A id \in 1..Len(fate) :
       fate[id] = "throw" =>
         /\ id \notin Range(errorQueue) \cup Range(reportQueue)
         /\ id \notin InFlight \cup DeliveredSet \cup undelivered
         /\ \A k \in 1..Len(callbackLog) : callbackLog[k].id # id
  /\ (last.op = "capture" /\ fate[nextId] = "cbthrow") =>
       IF hasReporter
         THEN /\ reportQueue # <<>>
              /\ reportQueue[Len(reportQueue)] = nextId
              /\ nextId \in undelivered
              /\ timer \in DOMAIN timeouts
         ELSE /\ errorQueue # <<>>
              /\ errorQueue[Len(errorQueue)] = nextId

C18_Witness ==
  /\ last.op = "capture"
  /\ hasReporter
  /\ nextId >= 2
  /\ fate[nextId] = "cbthrow"
  /\ fate[nextId - 1] = "throw"

\* C19 (as stated): after clearErrors the capture queue and the pending list
\* are empty, and no record captured before the call is in either of them
\* later, also when a batch was in flight at the call and then fails.
C19_ClearedNeverReappear ==
  /\ last.op = "clear" => (errorQueue = <<>> /\ reportQueue = <<>>)
  /\ Range(errorQueue) \cup Range(reportQueue) \subseteq Range(captured)

\* C11: start() called while started changes no hook state (slots, saved
\* handlers, listeners), and while the monitor has been started once and
\* auto-captures, one well-formed fault of any kind makes exactly one capture,
\* which adds exactly one record when the filter accepts it.
C11_SecondStartChangesNothing ==
  [][/\ last'.op = "startAgain" => UNCHANGED hooks
     /\ (/\ last'.op \in FaultKinds
         /\ raised' = "none"
         /\ isInitialized /\ autoCapture /\ starts = 1) =>
          /\ nextId' = nextId + 1
          /\ fate'[nextId'] = "accept" => Len(captured') = Len(captured) + 1]_vars

C11_Witness ==
  /\ last.op = "startAgain"
  /\ onerror = "sdk"
  /\ onunhandledrejection = "sdk"
  /\ originalErrorHandler = "host"
  /\ listeners = 1

\* C12 (as stated): a well-formed fault makes exactly one capture while the
\* monitor is started with auto-capture, whatever start()/stop() cycles came
\* before, and none while it is stopped.
C12_StopRemovesEveryHook ==
  (last.op \in FaultKinds /\ raised = "none") =>
    Len(last.batch) = IF isInitialized /\ autoCapture THEN 1 ELSE 0

\* C13 (as stated): after stop() the two global slots hold what they held
\* before the start() it undoes, for autoCapture on and off.
C13_SlotsRestored ==
  last.op = "stop" =>
    (onerror = preError /\ onunhandledrejection = preRejection)

\* C14 (as stated): a fault that reaches an installed hook raises nothing into
\* the page, and the handler saved at start(), if the page had one, is
\* invoked exactly once.
C14_HookAbsorbsAndChains ==
  /\ (last.op = "scriptError" /\ onerror = "sdk") =>
       /\ raised = "none"
       /\ hostCalls = IF originalErrorHandler = "host" THEN 1 ELSE 0
  /\ (last.op = "unhandledRejection" /\ onunhandledrejection = "sdk") =>
       /\ raised = "none"
       /\ hostCalls = IF originalUnhandledRejectionHandler = "host" THEN 1 ELSE 0
  /\ (last.op = "resourceError" /\ listeners > 0) => raised = "none"

\* C15: without an endpoint, while the accepted captures since the last clear
\* number N <= capacity, getErrorStats() gives totalErrors = queueSize = N and
\* pendingReports = 0 and getErrors() is the N records in capture order,
\* started or not.
C15_StatsWithoutEndpoint ==
  (~endpoint /\ Len(captured) <= maxQueueSize) =>
    /\ getErrorStats = [totalErrors |-> Len(captured), pendingReports |-> 0,
                        queueSize |-> Len(captured)]
    /\ getErrors = captured

C15_Witness ==
  /\ ~endpoint
  /\ isInitialized
  /\ last.op = "capture"
  /\ getErrors = <<1, 2, 3>>
  /\ getErrorStats.totalErrors = 3

C20_HistoriesCapped ==
  /\ Len(frameHistory) <= FrameHistoryMax
  /\ Len(fpsHistory) <= FpsHistoryMax
  /\ LET m == Min(frameCount, FrameHistoryMax)
     IN  /\ Len(frameHistory) = m
         /\ \A i \in 1..m : frameHistory[i].frameId = frameCount - m + i - 1
  /\ LET k == Min(ticks, FpsHistoryMax)
     IN  /\ Len(fpsHistory) = k
         /\ \A i \in 1..k : fpsHistory[i].tick = ticks - k + i

C20_Witness ==
  /\ Len(frameHistory) = FrameHistoryMax
  /\ frameHistory[1].frameId >= 2
  /\ Len(fpsHistory) = FpsHistoryMax
  /\ fpsHistory[1].tick >= 2
  /\ frameStarts = 2

\* the batch delivery in a page that starts and stops the monitor and
\* captures errors only while it is started, so that every timer pending
\* after a stop() was pending when stop() was called
CaptureWhileStarted == isInitialized /\ CaptureError("accept")

StopInit == Init /\ hasReporter /\ maxQueueSize = 1 /\ retryTimes \in {1, 2}

StopNext ==
  \/ CaptureWhileStarted
  \/ Start
  \/ Stop
  \/ Tick
  \/ \E h \in DOMAIN timeouts : TimerFire(h)
  \/ \E i \in 1..Len(flights) : NetSucceed(i)
  \/ \E i \in 1..Len(flights) : NetFail(i)
  \/ \E i \in 1..Len(flights) : BackoffFire(i)

SpecStop == StopInit /\ [][StopNext]_vars

\* C29: once stop() has returned and until the next start(), no debounce
\* timer starts a flush and no backoff timer starts a further attempt.
C29_StopCancelsDeliveryTimers ==
  (starts > 0 /\ ~isInitialized) => last.op \notin {"flush", "retry"}

\* the blank-screen detector on its own, for every sampleCount from 1 to
\* MaxSampleCount and every threshold of Thresholds
BlankInit ==
  /\ CoreInit
  /\ maxQueueSize = MaxQueueSize
  /\ retryTimes = MaxRetryTimes
  /\ endpoint
  /\ apiKey
  /\ HooksAt(TRUE, "null", "null")
  /\ FramesDefault
  /\ \E n \in 1..MaxSampleCount, t \in Thresholds : BlankAt(n, t)

BlankNext == \E empty \in BOOLEAN, b \in 0..MaxSampleCount : ManualCheck(empty, b)

SpecBlank == BlankInit /\ [][BlankNext]_vars

\* C30: whenever a viewport with an area was sampled, it is classified blank
\* if and only if blankPoints / sampleCount >= threshold; with sampleCount 10
\* and threshold 0.8 that is true for 8, 9 and 10 blank points and false
\* for 7.
C30_BlankIffRatioAtLeastThreshold ==
  (last.op = "manualCheck" /\ ~viewportEmpty) =>
    /\ isBlankScreen <=>
         \E k \in 0..blankPoints :
           /\ k * threshold[2] >= threshold[1] * sampleCount
           /\ \A j \in 0..(k - 1) :
                j * threshold[2] < threshold[1] * sampleCount
    /\ (sampleCount = 10 /\ threshold = <<4, 5>>) =>
         (isBlankScreen <=> blankPoints \in {8, 9, 10})

C30_Witness ==
  /\ last.op = "manualCheck"
  /\ ~viewportEmpty
  /\ sampleCount = 10
  /\ threshold = <<4, 5>>
  /\ blankPoints = 8
  /\ isBlankScreen

\* the Frame Sampler with a short update interval, for several pairs of
\* thresholds (one with the severe threshold below the long one), in a page
\* whose frames take 15, 30 or 120 ms, with snapshot queries at any moment
ScoreInterval == 60

ScoreDurations == {15, 30, 120}

ScoreThresholds ==
  {<<10, 12>>, <<20, 25>>, <<25, 20>>,
   <<LongFrameThreshold, SevereFrameThreshold>>}

ScoreInit ==
  /\ CoreInit
  /\ maxQueueSize = MaxQueueSize
  /\ retryTimes = MaxRetryTimes
  /\ endpoint
  /\ apiKey
  /\ HooksAt(TRUE, "null", "null")
  /\ BlankAt(DefaultSampleCount, DefaultThreshold)
  /\ \E t \in ScoreThresholds :
       FramesAt(t[1], t[2], ScoreInterval, ScoreDurations, MaxScoreTicks)

ScoreNext ==
  \/ FrameStart
  \/ \E d \in durations : MonitorFrame(d)
  \/ UpdateFPS
  \/ GetPerformanceData

SpecScore == ScoreInit /\ [][ScoreNext]_vars

\* the score of the current counters and fps history as a fraction of
\* integers, before clamping and rounding: base + min(avgFps / 60, 1) * 50
\* - 50 - longRatio * 30 - severeRatio * 50, over the denominator ScoreDen
ScoreNum(base) ==
  LET avg == calculateAvgFPS(fpsHistory)
      f == IF avg[1] >= FpsTarget * avg[2] THEN 300 * avg[2] ELSE 5 * avg[1]
  IN  (6 * base - 300) * avg[2] * frameCount + f * frameCount
        - 6 * avg[2] * (30 * longFrameCount + 50 * severeFrameCount)

ScoreDen == 6 * calculateAvgFPS(fpsHistory)[2] * frameCount

\* k = round(clamp(num / ScoreDen, 0, 100))
IsRoundedClamp(k, num) ==
  LET c == Max(0, Min(num, 100 * ScoreDen))
  IN  /\ k \in 0..100
      /\ (2 * k - 1) * ScoreDen <= 2 * c
      /\ 2 * c < (2 * k + 1) * ScoreDen

\* a snapshot was produced by the last step
Snapshot == last.op \in {"getPerformanceData", "updateFPS"}

\* C22 as stated: with at least one sample, the score of a snapshot is
\* round(clamp(min(avgFps/60, 1) * 50 - 50 + 50 - longRatio * 30
\* - severeRatio * 50, 0, 100)).
C22_ScoreByStatedFormula ==
  (Snapshot /\ frameCount >= 1) =>
    IsRoundedClamp(perf.data.smoothScore, ScoreNum(50))

\* C22: with at least one sample, the score of a snapshot is
\* round(clamp(100 - longRatio * 30 - severeRatio * 50
\* + (min(avgFps/60, 1) * 50 - 50), 0, 100)), avgFps the mean of the fps
\* history and the ratios the long / severe counts over the total count.
C22_ScoreByCodeFormula ==
  (Snapshot /\ frameCount >= 1) =>
    /\ perf.data.totalFrames = frameCount
    /\ perf.data.avgFps = calculateAvgFPS(fpsHistory)
    /\ IsRoundedClamp(perf.data.smoothScore, ScoreNum(100))

C22_Witness ==
  /\ Snapshot
  /\ frameCount >= 2
  /\ longFrameCount \in 1..(frameCount - 1)
  /\ Len(fpsHistory) = 2
  /\ perf.data.smoothScore \in 60..99

\* C23 as stated: the score is an integer from 0 to 100, 100 without
\* frames, and 0 whenever every frame observed exceeded the severe
\* threshold, whatever the thresholds.
C23_AllSevereScoresZero ==
  Snapshot =>
    /\ perf.data.smoothScore \in 0..100
    /\ frameCount = 0 => perf.data.smoothScore = 100
    /\ (frameCount >= 1 /\ severeFrameCount = frameCount) =>
         perf.data.smoothScore = 0

\* C23: the score is an integer from 0 to 100, 100 without frames, and 0
\* whenever every frame observed exceeded both thresholds and the mean of
\* the fps history is at most 36, which is so for every stream of severe
\* frames under the default thresholds.
C23_AllSevereAndSlowScoresZero ==
  Snapshot =>
    /\ perf.data.smoothScore \in 0..100
    /\ frameCount = 0 => perf.data.smoothScore = 100
    /\ ( /\ frameCount >= 1
         /\ severeFrameCount = frameCount
         /\ longFrameCount = frameCount
         /\ ~RatLess(<<36, 1>>, perf.data.avgFps) ) =>
         perf.data.smoothScore = 0
    /\ ( /\ frameCount >= 1
         /\ severeFrameCount = frameCount
         /\ longFrameThreshold = LongFrameThreshold
         /\ severeFrameThreshold = SevereFrameThreshold ) =>
         perf.data.smoothScore = 0

C23_Witness ==
  /\ Snapshot
  /\ frameCount >= 2
  /\ severeFrameCount = frameCount
  /\ longFrameCount = frameCount
  /\ RatLess(<<0, 1>>, perf.data.avgFps)
  /\ ~RatLess(<<36, 1>>, perf.data.avgFps)
  /\ perf.data.smoothScore = 0

\* C24: a snapshot query leaves every field of the sampler as it was (the
\* time and frame count of the last tick, the histories, the counters), so
\* that each periodic tick appends the fps of the frames recorded since the
\* previous tick, whatever queries were made in between.
C24_QueryChangesNothing ==
  [][/\ last'.op = "getPerformanceData" =>
          UNCHANGED <<sinceUpdate, lastUpdateFrameCount, fpsHistory,
                      frameHistory, frameCount, longFrameCount,
                      severeFrameCount, sinceFrame, isMonitoring, ticks>>
     /\ last'.op = "updateFPS" =>
          fpsHistory'[Len(fpsHistory')].fps =
            Rat(tickFrames * 1000, updateInterval)]_vars

C24_Witness ==
  /\ last.op = "getPerformanceData"
  /\ ticks >= 1
  /\ tickFrames >= 1
  /\ sinceUpdate > 0
  /\ perf.data.fps # fpsHistory[Len(fpsHistory)].fps

\* the Frame Sampler with its scroll sub-sessions: frames of 40 ms, an
\* update interval of 200 ms, scroll events at any frame or timer instant
\* while the listener is registered, and stop() / start() at any moment
ScrollInterval == 200

ScrollDurations == {40}

ScrollInit ==
  /\ CoreInit
  /\ maxQueueSize = MaxQueueSize
  /\ retryTimes = MaxRetryTimes
  /\ endpoint
  /\ apiKey
  /\ HooksAt(TRUE, "null", "null")
  /\ BlankAt(DefaultSampleCount, DefaultThreshold)
  /\ FramesAt(LongFrameThreshold, SevereFrameThreshold, ScrollInterval,
              ScrollDurations, MaxScoreTicks)

ScrollNext ==
  \/ FrameStart
  \/ FrameStop
  \/ \E d \in durations : MonitorFrame(d)
  \/ UpdateFPS
  \/ Scroll
  \/ \E h \in DOMAIN scrollTimeouts : ScrollEnd(h)

SpecScroll == ScrollInit /\ [][ScrollNext]_vars

\* C25: a scroll session is active exactly while less than 150 ms have
\* passed since the last scroll event the sampler handled; at most one idle
\* timer is pending, and while a session is active it is the one armed by
\* the last event; an event during a session begins no new session and
\* keeps the samples, an event after idle begins one; and during a session
\* and when it ends its sample set is exactly the frames recorded while it
\* was active.
C25_SessionFollowsIdleTimer ==
  /\ [](/\ isScrolling <=> (sinceScroll >= 0 /\ sinceScroll < ScrollIdle)
        /\ Cardinality(DOMAIN scrollTimeouts) <= 1
        /\ isScrolling =>
             /\ DOMAIN scrollTimeouts = {scrollTimeoutId}
             /\ scrollTimeouts[scrollTimeoutId] = ScrollIdle - sinceScroll
        /\ (isScrolling \/ last.op = "scrollEnd") =>
             scrollFrameData = sessionFrames)
  /\ [][/\ (last'.op = "scroll" /\ isScrolling) =>
             /\ sessions' = sessions
             /\ scrollFrameData' = scrollFrameData
             /\ isScrolling'
        /\ (last'.op = "scroll" /\ ~isScrolling) =>
             /\ sessions' = sessions + 1
             /\ scrollFrameData' = <<>>
             /\ isScrolling'
        /\ last'.op = "scrollEnd" =>
             /\ isScrolling /\ ~isScrolling'
             /\ sinceScroll' = ScrollIdle]_vars

C25_Witness ==
  /\ last.op = "scrollEnd"
  /\ scrolls >= 2
  /\ sessions = 1
  /\ Len(scrollFrameData) >= 4
  /\ isMonitoring

\* C26: the step that ends a scroll session calls the scroll-performance
\* callback exactly once.
C26_ScrollEndEmitsOnce ==
  last.op = "scrollEnd" => perf.scrollCalls = 1

\* C28: while the sampler is stopped no scroll-idle timer fires and no
\* scroll event is handled.
C28_StopCancelsScrollTimer ==
  ~isMonitoring => last.op \notin {"scroll", "scrollEnd", "scrollEndNoop"}

\* the samples of the ring that are long / severe
LongInRing == Cardinality({i \in 1..Len(frameHistory) : frameHistory[i].isLongFrame})

SevereInRing == Cardinality({i \in 1..Len(frameHistory) : frameHistory[i].isSevereFrame})

\* C21 as stated: the total, long and severe counts of every snapshot handed
\* to the callback equal the counts over the samples the ring holds.
C21_SnapshotCountsOverRing ==
  perf.calls = 1 =>
    /\ perf.data.totalFrames = Len(frameHistory)
    /\ perf.data.longFrameCount = LongInRing
    /\ perf.data.severeFrameCount = SevereInRing

\* C21: the counts of every snapshot handed to the callback are the
\* counters kept since the last start(): the total is the number of frames
\* observed since then, the long and severe counts cover the ring's samples
\* and the evicted ones, and all three equal the counts over the ring as
\* long as no sample has been evicted.
C21_SnapshotCountsSinceStart ==
  perf.calls = 1 =>
    LET evicted == perf.data.totalFrames - Len(frameHistory)
    IN  /\ perf.data.totalFrames =
             IF frameHistory = <<>> THEN 0
             ELSE frameHistory[Len(frameHistory)].frameId + 1
        /\ perf.data.longFrameCount - LongInRing \in 0..evicted
        /\ perf.data.severeFrameCount - SevereInRing \in 0..evicted
        /\ (\A d \in durations : d > longFrameThreshold) =>
             perf.data.longFrameCount = perf.data.totalFrames
        /\ (\A d \in durations : d > severeFrameThreshold) =>
             perf.data.severeFrameCount = perf.data.totalFrames
        /\ evicted = 0 =>
             /\ perf.data.longFrameCount = LongInRing
             /\ perf.data.severeFrameCount = SevereInRing

C21_Witness ==
  /\ perf.calls = 1
  /\ Len(frameHistory) = FrameHistoryMax
  /\ perf.data.totalFrames > FrameHistoryMax
  /\ perf.data.longFrameCount > FrameHistoryMax

\* C27: stop() leaves no animation-frame callback scheduled and no update
\* interval running, and from then until the next start() no step records
\* a frame sample, appends an fps value or invokes the performance-data
\* callback.
C27_StoppedSamplerIsSilent ==
  [][/\ last'.op = "frameStop" => (~rafPending' /\ ~intervalOn')
     /\ (~isMonitoring /\ ~isMonitoring') =>
          /\ frameHistory' = frameHistory
          /\ frameCount' = frameCount
          /\ fpsHistory' = fpsHistory
          /\ perf'.calls = 0]_vars

C27_Witness ==
  /\ ~isMonitoring
  /\ frameStarts >= 1
  /\ frameCount > 0
  /\ fpsHistory # <<>>
  /\ last.op = "autoReport"

\* the wait the claim gives after the k-th failed attempt: 1000, 2000, 4000, ...
RECURSIVE ClaimedWait(_)
ClaimedWait(k) == IF k <= 1 THEN 1000 ELSE 2 * ClaimedWait(k - 1)

\* C34: after the k-th failed attempt of a flush that has attempts left, the
\* flush waits 1000 * 2^(k-1) ms, and the next attempt starts when exactly
\* that wait is over; the failure of the last attempt requeues the batch in
\* the same step, without a wait.
C34_ExponentialBackoff ==
  /\ [](/\ last.op = "retryWait" =>
             /\ last.fails < retryTimes
             /\ \E i \in 1..Len(flights) :
                  /\ flights[i].errors = last.batch
                  /\ flights[i].pc = "backoff"
                  /\ flights[i].wait = ClaimedWait(last.fails)
        /\ (last.op = "exhausted" /\ last.fails >= 1) =>
             /\ last.fails = retryTimes
             /\ \A i \in 1..Len(flights) : flights[i].errors # last.batch
             /\ Len(reportQueue) >= Len(last.batch))
  /\ [][last'.op = "retry" =>
          \E i \in 1..Len(flights) :
            /\ flights[i].errors = last'.batch
            /\ flights[i].pc = "backoff"
            /\ flights[i].wait = 0
            /\ flights[i].fails = last'.fails]_vars

C34_Witness ==
  /\ last.op = "retry"
  /\ last.fails = 2
  /\ retryTimes = 3

\* C40: a flush that gives its batch back to the pending list has made at
\* least one request before.
C40_AttemptBeforeRequeue ==
  last.op = "exhausted" => last.requests >= 1

C39_OneAutoReportTimer == autoReports <= 1

\* the reporter with makeRequest followed step by step
SendInit == Init /\ hasReporter /\ maxQueueSize = 1 /\ retryTimes \in {1, 2}

SendNext ==
  \/ CaptureError("accept")
  \/ SendTick
  \/ \E h \in DOMAIN timeouts : TimerFire(h)
  \/ \E i \in 1..Len(flights), status \in Statuses, body \in BodyKinds :
       FetchResolves(i, status, body)
  \/ \E i \in 1..Len(flights) : FetchRejects(i)
  \/ \E i \in 1..Len(flights) : AbortFire(i)
  \/ \E i \in 1..Len(flights) : BodyDone(i)
  \/ \E i \in 1..Len(flights) : BackoffFire(i)

SpecSend == SendInit /\ [][SendNext]_vars

\* C35: a batch is delivered only by an attempt whose response had an ok
\* status and a body that parsed; an attempt whose ok response has a body
\* that does not parse ends as a failed attempt: with attempts left the
\* flush backs off and the next attempt sends the same batch, after the
\* last attempt the batch is put back in the pending list; nothing is
\* delivered.
C35_UnparseableBodyFails ==
  [][/\ last'.op = "delivered" =>
          \E i \in 1..Len(flights) :
            /\ flights[i].errors = last'.batch
            /\ flights[i].pc = "body"
            /\ ResponseOk(flights[i].status)
            /\ Parses(flights[i].body)
     /\ \A i \in 1..Len(flights) :
          (/\ flights[i].pc = "body"
           /\ ~Parses(flights[i].body)
           /\ flights[i].body # "never"
           /\ \/ i > Len(flights')
              \/ flights'[i].pc # "body") =>
            /\ delivered' = delivered
            /\ last'.batch = flights[i].errors
            /\ last'.fails = flights[i].fails + 1
            /\ IF flights[i].attempt < retryTimes
                 THEN /\ last'.op = "retryWait"
                      /\ flights'[i].pc = "backoff"
                      /\ flights'[i].payload = flights[i].errors
                 ELSE /\ last'.op = "exhausted"
                      /\ Len(flights') = Len(flights) - 1
                      /\ Range(flights[i].errors) \subseteq Range(reportQueue')
     /\ last'.op = "retry" =>
          \E i \in 1..Len(flights') :
            /\ flights'[i].pc = "request"
            /\ flights'[i].wire = last'.batch
            /\ flights'[i].errors = last'.batch]_vars

C35_Witness ==
  /\ last.op = "retryWait"
  /\ delivered = <<>>
  /\ \E i \in 1..Len(flights) :
       /\ flights[i].pc = "backoff"
       /\ flights[i].errors = last.batch
       /\ ResponseOk(flights[i].status)
       /\ flights[i].body = "malformed"

\* C36 (as stated): every attempt ends no later than the timeout after its
\* makeRequest began, whatever the collector does.
C36_AttemptEndsWithinTimeout ==
  \A i \in 1..Len(flights) :
    makeRequestPending(flights[i]) => flights[i].age <= Timeout

\* the blank-screen detector with its scheduled check, started and stopped
\* in a document that is still loading or has finished loading
DetectorBlankPoints == {0, 8}

DetectorInit ==
  /\ CoreInit
  /\ maxQueueSize = MaxQueueSize
  /\ retryTimes = MaxRetryTimes
  /\ endpoint
  /\ apiKey
  /\ HooksAt(TRUE, "null", "null")
  /\ FramesDefault
  /\ \E rs \in {"loading", "complete"} :
       DetectorAt(DefaultSampleCount, DefaultThreshold, rs)

DetectorNext ==
  \/ BlankStart
  \/ BlankStop
  \/ DomContentLoaded
  \/ DetectorTick
  \/ \E h \in DOMAIN checkTimeouts, empty \in BOOLEAN,
        b \in DetectorBlankPoints : PerformCheck(h, empty, b)
  \/ \E empty \in BOOLEAN, b \in DetectorBlankPoints : ManualCheck(empty, b)

SpecDetector == DetectorInit /\ [][DetectorNext]_vars

\* C31: a scheduled or manual check that classifies the page blank makes
\* exactly one record and invokes the consumer once, one that does not
\* makes no record and invokes nothing; a manual check resolves with the
\* classification and leaves checkTimer, the pending check timeouts and
\* isChecking as they were.
C31_OneRecordPerBlankResult ==
  /\ [](last.op \in {"manualCheck", "performCheck"} =>
          /\ forwarded = IF isBlankScreen THEN 1 ELSE 0
          /\ last.op = "manualCheck" => manualResult = isBlankScreen)
  /\ [][last'.op \in {"manualCheck", "performCheck"} =>
          /\ nextId' = nextId + (IF isBlankScreen' THEN 1 ELSE 0)
          /\ Len(callbackLog') = Len(callbackLog) + forwarded'
          /\ last'.op = "manualCheck" =>
               /\ checkTimer' = checkTimer
               /\ checkTimeouts' = checkTimeouts
               /\ isChecking' = isChecking]_vars

C31_Witness ==
  /\ last.op = "manualCheck"
  /\ manualResult
  /\ forwarded = 1
  /\ isChecking
  /\ checkTimeouts # <<>>
  /\ nextId = 2

\* C32 (as stated): a scheduled check runs only once the document is ready,
\* at most one scheduled check is pending at any time, and none runs while
\* the detector is stopped.
C32_OneCheckWhileStarted ==
  /\ Cardinality(DOMAIN checkTimeouts) <= 1
  /\ last.op = "performCheck" => (readyState # "loading" /\ detectorOn)

\* the orchestrator started, stopped and reconfigured, with the sampler and
\* the detector enabled or disabled at construction
ConfigInit ==
  /\ CoreInit
  /\ maxQueueSize = MaxQueueSize
  /\ retryTimes = MaxRetryTimes
  /\ endpoint
  /\ apiKey
  /\ HooksAt(TRUE, "null", "null")
  /\ longFrameThreshold = LongFrameThreshold
  /\ severeFrameThreshold = SevereFrameThreshold
  /\ updateInterval = UpdateInterval
  /\ durations = {UpdateInterval \div FramesPerTick}
  /\ horizon = MaxTicks
  /\ \E en \in {"true", "false"} : frameEnabled = en /\ cfgFrameEnabled = en
  /\ BlankAt(DefaultSampleCount, DefaultThreshold)

ConfigNext ==
  \/ Start
  \/ Stop
  \/ \E bs \in ConfigUpdates, fm \in ConfigUpdates : UpdateConfig(bs, fm)

SpecConfig == ConfigInit /\ [][ConfigNext]_vars

\* C33 (as stated): the sampler is running if and only if the orchestrator
\* is started and the merged configuration's frameMonitor.enabled is true,
\* and that is what getFrameMonitorStatus().isMonitoring reports.
C33_RunningIffStartedAndEnabled ==
  /\ isMonitoring <=> (isInitialized /\ Truthy(cfgFrameEnabled))
  /\ getFrameMonitorStatus.isMonitoring = isMonitoring

\* two monitors A and B on one page, each started once, A first, and
\* stopped in any order, with faults at any moment
PairInit == Init /\ maxQueueSize = MaxQueueSize /\ retryTimes = MaxRetryTimes
                 /\ endpoint /\ apiKey

PairNext ==
  \/ \E k \in SlotKinds : PageInstalls(k)
  \/ \E i \in Instances : PairStart(i)
  \/ \E i \in Instances : PairStop(i)
  \/ \E kind \in FaultKinds : PairFault(kind)

SpecPair == PairInit /\ [][PairNext]_vars

\* C37 (as stated, for the faults that go through the global slots): a
\* script error or unhandled rejection makes exactly one record in every
\* monitor that is started and none in a monitor that is stopped, and once
\* both monitors have been started and stopped the two slots hold what they
\* held before A started.
C37_TwoMonitorsShareThePage ==
  /\ last.op = "pairFault" =>
       \A i \in Instances : got[i] = IF initialized[i] THEN 1 ELSE 0
  /\ (\A i \in Instances : everStarted[i] /\ ~initialized[i]) =>
       slots = pageSlots

====
